---- MODULE Spec2Model ----
(***************************************************************************)
(* Pocky: the client-side task/project state manager of src/app/page.tsx   *)
(* (component Home) with the views and dialogs that call its handlers.     *)
(*                                                                         *)
(* Conventions of the model                                                *)
(*  - ids are the values of crypto.randomUUID(): fresh numbers handed out  *)
(*    by nextId; NoId stands for null / undefined / '' in an id field.     *)
(*  - timestamps are readings of new Date(): now is the last reading, a    *)
(*    handler that reads the clock gets now + 1 (two user gestures never   *)
(*    share a reading); NoTime stands for null.                            *)
(*  - NullText stands for null in a text field.                            *)
(*  - a view is the record [kind, pid]: `project:${id}` is kind "project". *)
(*  - a full-screen backdrop (TaskDetailModal, TaskModal: "fixed inset-0") *)
(*    takes the pointer, so pointer gestures on the lists and the sidebar  *)
(*    need every dialog closed; the keyboard shortcuts of handleKeyDown    *)
(*    (views, new task, new project, search) do not.                       *)
(***************************************************************************)
EXTENDS Integers, Sequences, FiniteSets, TLC

VARIABLES
    tasks,                \* Home.tasks: Task[]
    projects,             \* Home.projects: Project[]
    areas,                \* Home.areas: Area[]
    headings,             \* Home.headings: Heading[]
    activeView,           \* Home.activeView
    isAddingTask,         \* Home.isAddingTask
    addingTaskHeadingId,  \* Home.addingTaskHeadingId
    selectedTask,         \* Home.selectedTask: the Task object clicked, or NoTask
    isLoaded,             \* Home.isLoaded
    storage,              \* window.localStorage, the four pocky_* slots
    pending,              \* the writes of the running effects not yet done, in order
    now,                  \* last reading of the clock
    nextId,               \* next value of crypto.randomUUID()
    lastOp,               \* history: the last operation and its arguments
    sortBy,               \* ProjectView.sortBy
    sortStorage,          \* window.localStorage, the pocky_project_sort_* slots
    picker,               \* the emoji picker of the task rows (NativeEmojiPicker)
    other,                \* a second instance of the application on the same storage
    showShortcutsHelp,    \* Home.showShortcutsHelp
    isAddingProjectViaShortcut,  \* Home.isAddingProjectViaShortcut
    showSearch,           \* Home.showSearch
    highlightedTaskId,    \* Home.highlightedTaskId
    timers,               \* the setTimeout callbacks of handleSearchSelect not yet run
    focus,                \* document.activeElement: the page, or the input of an overlay
    spotlight,            \* SpotlightSearch: query and selectedIndex
    touch                 \* TaskList: the touch drag gesture

vars == <<tasks, projects, areas, headings, activeView, isAddingTask,
          addingTaskHeadingId, selectedTask, isLoaded, storage, pending,
          now, nextId, lastOp, sortBy, sortStorage, picker, other,
          showShortcutsHelp, isAddingProjectViaShortcut, showSearch,
          highlightedTaskId, timers, focus, spotlight, touch>>

\* the overlays of Home opened from the keyboard, the search and the touch
\* gesture of the task list
overlaid == <<showShortcutsHelp, isAddingProjectViaShortcut, showSearch,
              highlightedTaskId, timers, focus, spotlight, touch>>

\* what the handlers of Home and its save effects never touch: the state of
\* the components below it and the memory of another instance
aside == <<sortBy, sortStorage, picker, other, overlaid>>

-----------------------------------------------------------------------------
(* Bounds *)

MaxIds == 6       \* ids handed out (the initial data uses 1..5)
MaxTime == 3      \* clock readings (the initial data is stamped 1)

-----------------------------------------------------------------------------
(* Values *)

NoId == 0
NoTime == 0
NullText == "<null>"

Buckets == {"today", "this_week", "next_week", "anytime", "someday"}

TASKS_KEY == "pocky_tasks"
PROJECTS_KEY == "pocky_projects"
AREAS_KEY == "pocky_areas"
HEADINGS_KEY == "pocky_headings"
Keys == {TASKS_KEY, PROJECTS_KEY, AREAS_KEY, HEADINGS_KEY}

\* inputs typed by the user (the second of each is blank)
TitleInputs == {"milk", "  "}
NameInputs == {"home", "  "}

\* String.prototype.trim on the texts of the model
Trim(s) == IF s = "  " THEN "" ELSE s
DeadlineInputs == {NullText}
\* the buckets the user picks in a schedule picker or drops a task on
ScheduleInputs == {"today", "someday"}
\* the bucket views the user opens
ViewInputs == {"today", "this_week"}

BucketView(b) == [kind |-> b, pid |-> NoId]
LogbookView == [kind |-> "logbook", pid |-> NoId]
ProjectViewOf(p) == [kind |-> "project", pid |-> p]
DefaultView == BucketView("today")

\* activeView.startsWith('project:')
IsProjectViewOf(v) == v.kind = "project"

NoTask ==
    [id |-> NoId, project_id |-> NoId, heading_id |-> NoId, title |-> NullText,
     emoji |-> NullText, notes |-> NullText, status |-> NullText, schedule |-> NullText,
     deadline |-> NullText, position |-> 0, created_at |-> NoTime,
     updated_at |-> NoTime, completed_at |-> NoTime]

NoOp == [op |-> "none", task |-> NoId, project |-> NoId, arg |-> NullText]
\* a gesture that calls no handler of the collections
UiOp == [op |-> "ui", task |-> NoId, project |-> NoId, arg |-> NullText]
Op(name, t, p, a) == [op |-> name, task |-> t, project |-> p, arg |-> a]

-----------------------------------------------------------------------------
(* Sequence helpers: Array.prototype.filter is SelectSeq, .map is MapSeq *)

MapSeq(s, F(_)) == [i \in 1..Len(s) |-> F(s[i])]

Range(s) == {s[i] : i \in 1..Len(s)}

Ids(s) == {s[i].id : i \in 1..Len(s)}

-----------------------------------------------------------------------------
(* JSON.stringify / JSON.parse of the collections.  A JSON value is null,   *)
(* a string or a number; an id is a string, a timestamp is an ISO string.   *)

JNull == [kind |-> "null", n |-> 0, s |-> ""]
JString(s) == [kind |-> "string", n |-> 0, s |-> s]
JId(v) == IF v = NoId THEN JNull ELSE [kind |-> "string", n |-> v, s |-> "uuid"]
JDate(v) == IF v = NoTime THEN JNull ELSE [kind |-> "string", n |-> v, s |-> "iso"]
JText(s) == IF s = NullText THEN JNull ELSE JString(s)
JNumber(n) == [kind |-> "number", n |-> n, s |-> ""]

PId(j) == IF j.kind = "null" THEN NoId ELSE j.n
PDate(j) == IF j.kind = "null" THEN NoTime ELSE j.n
PText(j) == IF j.kind = "null" THEN NullText ELSE j.s
PNumber(j) == j.n

stringifyTask(t) ==
    [id |-> JId(t.id), project_id |-> JId(t.project_id),
     heading_id |-> JId(t.heading_id), title |-> JText(t.title),
     emoji |-> JText(t.emoji),
     notes |-> JText(t.notes), status |-> JText(t.status),
     schedule |-> JText(t.schedule), deadline |-> JText(t.deadline),
     position |-> JNumber(t.position), created_at |-> JDate(t.created_at),
     updated_at |-> JDate(t.updated_at), completed_at |-> JDate(t.completed_at)]

parseTask(j) ==
    [id |-> PId(j.id), project_id |-> PId(j.project_id),
     heading_id |-> PId(j.heading_id), title |-> PText(j.title),
     emoji |-> PText(j.emoji),
     notes |-> PText(j.notes), status |-> PText(j.status),
     schedule |-> PText(j.schedule), deadline |-> PText(j.deadline),
     position |-> PNumber(j.position), created_at |-> PDate(j.created_at),
     updated_at |-> PDate(j.updated_at), completed_at |-> PDate(j.completed_at)]

stringifyProject(p) ==
    [id |-> JId(p.id), area_id |-> JId(p.area_id), name |-> JText(p.name),
     notes |-> JText(p.notes), position |-> JNumber(p.position),
     status |-> JText(p.status), deadline |-> JText(p.deadline),
     created_at |-> JDate(p.created_at), updated_at |-> JDate(p.updated_at),
     completed_at |-> JDate(p.completed_at)]

parseProject(j) ==
    [id |-> PId(j.id), area_id |-> PId(j.area_id), name |-> PText(j.name),
     notes |-> PText(j.notes), position |-> PNumber(j.position),
     status |-> PText(j.status), deadline |-> PText(j.deadline),
     created_at |-> PDate(j.created_at), updated_at |-> PDate(j.updated_at),
     completed_at |-> PDate(j.completed_at)]

stringifyArea(a) ==
    [id |-> JId(a.id), name |-> JText(a.name), position |-> JNumber(a.position)]

parseArea(j) ==
    [id |-> PId(j.id), name |-> PText(j.name), position |-> PNumber(j.position)]

stringifyHeading(h) ==
    [id |-> JId(h.id), project_id |-> JId(h.project_id), name |-> JText(h.name),
     position |-> JNumber(h.position), created_at |-> JDate(h.created_at)]

parseHeading(j) ==
    [id |-> PId(j.id), project_id |-> PId(j.project_id), name |-> PText(j.name),
     position |-> PNumber(j.position), created_at |-> PDate(j.created_at)]

\* a slot of localStorage: getItem returns null (absent) or the stored text
Absent == [present |-> FALSE, text |-> <<>>]
Stored(text) == [present |-> TRUE, text |-> text]

\* a test that also takes the text of an empty array for "nothing saved"
TruthyAndNotEmpty(slot) == slot.present /\ slot.text # <<>>

\* `if (saved)`: null is falsy; the text of a JSON array ("[...]") never is
Truthy(slot) == slot.present

-----------------------------------------------------------------------------
(* The seed dataset (lib/seedData): two standalone projects, one task in a *)
(* project and one without.                                                *)

SeedTime == 1

\* generateEmoji (utils/emoji): the emoji looked up for a title
generateEmoji(title) == "memo"

seedProjects ==
    << [id |-> 1, area_id |-> NoId, name |-> "work", notes |-> NullText,
        position |-> 0, status |-> "active", deadline |-> NullText,
        created_at |-> SeedTime, updated_at |-> SeedTime, completed_at |-> NoTime],
       [id |-> 2, area_id |-> NoId, name |-> "home", notes |-> NullText,
        position |-> 1, status |-> "active", deadline |-> NullText,
        created_at |-> SeedTime, updated_at |-> SeedTime, completed_at |-> NoTime] >>

seedTasks ==
    << [id |-> 3, project_id |-> 1, heading_id |-> NoId, title |-> "plan",
        emoji |-> generateEmoji("plan"),
        notes |-> NullText, status |-> "active", schedule |-> "today",
        deadline |-> NullText, position |-> 0, created_at |-> SeedTime,
        updated_at |-> SeedTime, completed_at |-> NoTime],
       [id |-> 4, project_id |-> NoId, heading_id |-> NoId, title |-> "call",
        emoji |-> generateEmoji("call"),
        notes |-> NullText, status |-> "active", schedule |-> "this_week",
        deadline |-> NullText, position |-> 1, created_at |-> SeedTime,
        updated_at |-> SeedTime, completed_at |-> NoTime] >>

FirstFreeId == 6

-----------------------------------------------------------------------------
(* Derived views *)

\* `a.completed_at || a.updated_at` of the logbook comparator
LogbookDate(t) == IF t.completed_at # NoTime THEN t.completed_at ELSE t.updated_at

\* the comparator with its operands swapped (aDate - bDate)
RECURSIVE InsertOldestFirst(_, _)
InsertOldestFirst(x, s) ==
    IF s = <<>> THEN <<x>>
    ELSE IF LogbookDate(Head(s)) - LogbookDate(x) > 0 THEN <<x>> \o s
    ELSE <<Head(s)>> \o InsertOldestFirst(x, Tail(s))

\* Array.prototype.sort is stable: x goes after every element that the
\* comparator (bDate - aDate) does not order behind it
RECURSIVE InsertByLogbookDate(_, _)
InsertByLogbookDate(x, s) ==
    IF s = <<>> THEN <<x>>
    ELSE IF LogbookDate(x) - LogbookDate(Head(s)) > 0 THEN <<x>> \o s
    ELSE <<Head(s)>> \o InsertByLogbookDate(x, Tail(s))

RECURSIVE SortLogbook(_)
SortLogbook(s) ==
    IF s = <<>> THEN <<>>
    ELSE InsertByLogbookDate(s[Len(s)], SortLogbook(SubSeq(s, 1, Len(s) - 1)))

\* the predicate of tasks.filter(...) in Home
InView(task, view) ==
    IF IsProjectViewOf(view) THEN task.project_id = view.pid
    ELSE IF view.kind \in Buckets
         THEN task.schedule = view.kind /\ task.status # "completed"
    ELSE IF view.kind = "logbook" THEN task.status = "completed"
    ELSE FALSE

filteredTasksOf(ts, view) ==
    LET kept == SelectSeq(ts, LAMBDA t : InView(t, view))
    IN  IF view.kind = "logbook" THEN SortLogbook(kept) ELSE kept

filteredTasks == filteredTasksOf(tasks, activeView)

currentProjectId == IF IsProjectViewOf(activeView) THEN activeView.pid ELSE NoId

projectHeadingsOf(hs, pid) ==
    IF pid # NoId THEN SelectSeq(hs, LAMBDA h : h.project_id = pid) ELSE <<>>

projectHeadings == projectHeadingsOf(headings, currentProjectId)

\* Home renders ProjectView only if the project of the view exists
isProjectViewShown == IsProjectViewOf(activeView) /\ currentProjectId \in Ids(projects)

\* ProjectView: the groups it renders from its tasks and headings props
activeTasksOf(ts) == SelectSeq(ts, LAMBDA t : t.status # "completed")
completedTasksOf(ts) == SelectSeq(ts, LAMBDA t : t.status = "completed")
tasksWithoutHeadingOf(ts) == SelectSeq(activeTasksOf(ts), LAMBDA t : t.heading_id = NoId)
tasksOfHeading(ts, h) == SelectSeq(activeTasksOf(ts), LAMBDA t : t.heading_id = h.id)

\* the tasks a project view lists, group by group
ProjectViewListing(ts, hs) ==
    Ids(tasksWithoutHeadingOf(ts))
        \cup UNION {Ids(tasksOfHeading(ts, hs[i])) : i \in 1..Len(hs)}
        \cup Ids(completedTasksOf(ts))

\* the tasks on screen in the main pane (TaskList or ProjectView)
ShownTasks ==
    IF isProjectViewShown
    THEN {t \in Range(filteredTasks) : t.id \in ProjectViewListing(filteredTasks, projectHeadings)}
    ELSE Range(filteredTasks)

\* Array.prototype.sort((a, b) => a.position - b.position): stable, ties
\* stay in the order of the collection
RECURSIVE InsertByPosition(_, _)
InsertByPosition(x, s) ==
    IF s = <<>> THEN <<x>>
    ELSE IF x.position - Head(s).position < 0 THEN <<x>> \o s
    ELSE <<Head(s)>> \o InsertByPosition(x, Tail(s))

RECURSIVE sortedByPosition(_)
sortedByPosition(s) ==
    IF s = <<>> THEN <<>>
    ELSE InsertByPosition(s[Len(s)], sortedByPosition(SubSeq(s, 1, Len(s) - 1)))

\* Sidebar: the projects it lists (drop targets, context menu, navigation,
\* the items of its Reorder.Group)
standaloneProjectsOf(ps) ==
    sortedByPosition(SelectSeq(ps, LAMBDA p : p.status # "completed" /\ p.area_id = NoId))

standaloneProjects == standaloneProjectsOf(projects)

\* Sidebar.handleReorder with the positions left as they were
reorderKeepingPositions(reorderedProjects) == reorderedProjects

\* Sidebar.handleReorder: what it passes to onReorderProjects
handleReorder(reorderedProjects) ==
    [index \in 1..Len(reorderedProjects) |->
        [reorderedProjects[index] EXCEPT !.position = index - 1]]

\* Reorder.Group while an item is dragged: the item at place i and the one
\* below it change places
swapped(s, i) ==
    [j \in 1..Len(s) |-> IF j = i THEN s[i + 1] ELSE IF j = i + 1 THEN s[i] ELSE s[j]]

-----------------------------------------------------------------------------
(* The handlers of Home (src/app/page.tsx).  Each states the in-memory     *)
(* state it leaves; the save effects it triggers are added by the actions. *)

ReadClock == now + 1

\* { ...task, ...updates }
SpreadTask(task, updates) ==
    LET Pick(f) == IF f \in DOMAIN updates THEN updates[f] ELSE task[f]
    IN  [id |-> Pick("id"), project_id |-> Pick("project_id"),
         heading_id |-> Pick("heading_id"), title |-> Pick("title"),
         emoji |-> Pick("emoji"),
         notes |-> Pick("notes"), status |-> Pick("status"),
         schedule |-> Pick("schedule"), deadline |-> Pick("deadline"),
         position |-> Pick("position"), created_at |-> Pick("created_at"),
         updated_at |-> Pick("updated_at"), completed_at |-> Pick("completed_at")]

handleCreateProject(name, areaId) ==
    LET newProject ==
            [id |-> nextId, area_id |-> areaId, name |-> name, notes |-> NullText,
             position |-> Len(projects), status |-> "active", deadline |-> NullText,
             created_at |-> ReadClock, updated_at |-> ReadClock,
             completed_at |-> NoTime]
    IN  /\ projects' = Append(projects, newProject)
        /\ activeView' = ProjectViewOf(newProject.id)
        /\ nextId' = nextId + 1
        /\ now' = ReadClock
        /\ UNCHANGED <<tasks, areas, headings, isAddingTask, addingTaskHeadingId,
                       selectedTask>>

\* a new task always filed under Anytime
newTaskAlwaysAnytime(view) == "anytime"

\* the schedule a new task gets in the active view
NewTaskSchedule(view) == IF view.kind \in Buckets THEN view.kind ELSE "anytime"

handleAddTask(title, notes, deadline) ==
    LET projectId == IF IsProjectViewOf(activeView) THEN activeView.pid ELSE NoId
        newTask ==
            [id |-> nextId, project_id |-> projectId,
             heading_id |-> addingTaskHeadingId, title |-> title,
             emoji |-> generateEmoji(title),
             notes |-> IF notes = "" THEN NullText ELSE notes, status |-> "active",
             schedule |-> NewTaskSchedule(activeView), deadline |-> deadline,
             position |-> Len(tasks), created_at |-> ReadClock,
             updated_at |-> ReadClock, completed_at |-> NoTime]
    IN  /\ tasks' = Append(tasks, newTask)
        /\ isAddingTask' = FALSE
        /\ addingTaskHeadingId' = NoId
        /\ nextId' = nextId + 1
        /\ now' = ReadClock
        /\ UNCHANGED <<projects, areas, headings, activeView, selectedTask>>

handleUpdateTaskEmoji(taskId, emoji) ==
    /\ tasks' = MapSeq(tasks, LAMBDA task :
                    IF task.id = taskId
                    THEN [task EXCEPT !.emoji = emoji, !.updated_at = ReadClock]
                    ELSE task)
    /\ now' = ReadClock
    /\ UNCHANGED <<projects, areas, headings, activeView, isAddingTask,
                   addingTaskHeadingId, selectedTask, nextId>>

handleAddHeading(name) ==
    /\ currentProjectId # NoId
    /\ headings' = Append(headings,
                          [id |-> nextId, project_id |-> currentProjectId,
                           name |-> name, position |-> Len(projectHeadings),
                           created_at |-> ReadClock])
    /\ nextId' = nextId + 1
    /\ now' = ReadClock
    /\ UNCHANGED <<tasks, projects, areas, activeView, isAddingTask,
                   addingTaskHeadingId, selectedTask>>

handleToggleTask(taskId, completed) ==
    /\ tasks' = MapSeq(tasks, LAMBDA task :
                    IF task.id = taskId
                    THEN [task EXCEPT
                            !.status = IF completed THEN "completed" ELSE "active",
                            !.completed_at = IF completed THEN ReadClock ELSE NoTime]
                    ELSE task)
    /\ now' = IF completed THEN ReadClock ELSE now
    /\ UNCHANGED <<projects, areas, headings, activeView, isAddingTask,
                   addingTaskHeadingId, selectedTask, nextId>>

\* handleScheduleTask without the `schedule || 'anytime'` fallback
scheduleTaskStoringNull(taskId, schedule) ==
    /\ tasks' = MapSeq(tasks, LAMBDA task :
                    IF task.id = taskId THEN [task EXCEPT !.schedule = schedule]
                    ELSE task)
    /\ UNCHANGED <<projects, areas, headings, activeView, isAddingTask,
                   addingTaskHeadingId, selectedTask, now, nextId>>

\* schedule is a bucket or NullText (the picker's Clear)
handleScheduleTask(taskId, schedule) ==
    /\ tasks' = MapSeq(tasks, LAMBDA task :
                    IF task.id = taskId
                    THEN [task EXCEPT
                            !.schedule = IF schedule = NullText THEN "anytime"
                                         ELSE schedule]
                    ELSE task)
    /\ UNCHANGED <<projects, areas, headings, activeView, isAddingTask,
                   addingTaskHeadingId, selectedTask, now, nextId>>

\* sets tasks and the clock only; the callers state the rest
handleUpdateTask(taskId, updates) ==
    /\ tasks' = MapSeq(tasks, LAMBDA task :
                    IF task.id = taskId
                    THEN [SpreadTask(task, updates) EXCEPT !.updated_at = ReadClock]
                    ELSE task)
    /\ now' = ReadClock

\* sets tasks only; the callers state the rest
handleDeleteTask(taskId) ==
    tasks' = SelectSeq(tasks, LAMBDA t : t.id # taskId)

\* handleDeleteProject without the cascade to headings
deleteProjectKeepingHeadings(projectId) ==
    /\ projects' = SelectSeq(projects, LAMBDA p : p.id # projectId)
    /\ tasks' = SelectSeq(tasks, LAMBDA t : t.project_id # projectId)
    /\ headings' = headings
    /\ activeView' = IF activeView = ProjectViewOf(projectId) THEN DefaultView
                     ELSE activeView
    /\ UNCHANGED <<areas, isAddingTask, addingTaskHeadingId, selectedTask, now,
                   nextId>>

\* handleDeleteProject without the cascade to tasks
deleteProjectKeepingTasks(projectId) ==
    /\ projects' = SelectSeq(projects, LAMBDA p : p.id # projectId)
    /\ tasks' = tasks
    /\ headings' = SelectSeq(headings, LAMBDA h : h.project_id # projectId)
    /\ activeView' = IF activeView = ProjectViewOf(projectId) THEN DefaultView
                     ELSE activeView
    /\ UNCHANGED <<areas, isAddingTask, addingTaskHeadingId, selectedTask, now,
                   nextId>>

\* handleDeleteProject without the fall back to the default view
deleteProjectKeepingView(projectId) ==
    /\ projects' = SelectSeq(projects, LAMBDA p : p.id # projectId)
    /\ tasks' = SelectSeq(tasks, LAMBDA t : t.project_id # projectId)
    /\ headings' = SelectSeq(headings, LAMBDA h : h.project_id # projectId)
    /\ activeView' = activeView
    /\ UNCHANGED <<areas, isAddingTask, addingTaskHeadingId, selectedTask, now,
                   nextId>>

handleDeleteProject(projectId) ==
    /\ projects' = SelectSeq(projects, LAMBDA p : p.id # projectId)
    /\ tasks' = SelectSeq(tasks, LAMBDA t : t.project_id # projectId)
    /\ headings' = SelectSeq(headings, LAMBDA h : h.project_id # projectId)
    /\ activeView' = IF activeView = ProjectViewOf(projectId) THEN DefaultView
                     ELSE activeView
    /\ UNCHANGED <<areas, isAddingTask, addingTaskHeadingId, selectedTask, now,
                   nextId>>

\* handleMoveTaskToProject without `heading_id: null`
moveTaskToProjectKeepingHeading(taskId, projectId) ==
    /\ tasks' = MapSeq(tasks, LAMBDA task :
                    IF task.id = taskId
                    THEN [task EXCEPT !.project_id = projectId,
                                      !.updated_at = ReadClock]
                    ELSE task)
    /\ now' = ReadClock
    /\ UNCHANGED <<projects, areas, headings, activeView, isAddingTask,
                   addingTaskHeadingId, selectedTask, nextId>>

handleMoveTaskToProject(taskId, projectId) ==
    /\ tasks' = MapSeq(tasks, LAMBDA task :
                    IF task.id = taskId
                    THEN [task EXCEPT !.project_id = projectId,
                                      !.heading_id = NoId,
                                      !.updated_at = ReadClock]
                    ELSE task)
    /\ now' = ReadClock
    /\ UNCHANGED <<projects, areas, headings, activeView, isAddingTask,
                   addingTaskHeadingId, selectedTask, nextId>>

\* handleMoveTaskToSchedule with `heading_id: null` added
moveTaskToScheduleClearingHeading(taskId, schedule) ==
    /\ tasks' = MapSeq(tasks, LAMBDA task :
                    IF task.id = taskId
                    THEN [task EXCEPT !.schedule = schedule,
                                      !.heading_id = NoId,
                                      !.updated_at = ReadClock]
                    ELSE task)
    /\ now' = ReadClock
    /\ UNCHANGED <<projects, areas, headings, activeView, isAddingTask,
                   addingTaskHeadingId, selectedTask, nextId>>

handleMoveTaskToSchedule(taskId, schedule) ==
    /\ tasks' = MapSeq(tasks, LAMBDA task :
                    IF task.id = taskId
                    THEN [task EXCEPT !.schedule = schedule,
                                      !.updated_at = ReadClock]
                    ELSE task)
    /\ now' = ReadClock
    /\ UNCHANGED <<projects, areas, headings, activeView, isAddingTask,
                   addingTaskHeadingId, selectedTask, nextId>>

handleSnoozeAllToNextWeek ==
    /\ tasks' = MapSeq(tasks, LAMBDA task :
                    IF task.schedule = "this_week" /\ task.status # "completed"
                    THEN [task EXCEPT !.schedule = "next_week",
                                      !.updated_at = ReadClock]
                    ELSE task)
    /\ now' = ReadClock
    /\ UNCHANGED <<projects, areas, headings, activeView, isAddingTask,
                   addingTaskHeadingId, selectedTask, nextId>>

\* handleConvertToProject with the new project put first (position 0)
convertToFirstProject(task) ==
    LET newProject ==
            [id |-> nextId, area_id |-> NoId, name |-> task.title,
             notes |-> task.notes, position |-> 0, status |-> "active",
             deadline |-> task.deadline, created_at |-> ReadClock,
             updated_at |-> ReadClock, completed_at |-> NoTime]
    IN  /\ projects' = Append(projects, newProject)
        /\ tasks' = SelectSeq(tasks, LAMBDA t : t.id # task.id)
        /\ activeView' = ProjectViewOf(newProject.id)
        /\ selectedTask' = NoTask
        /\ nextId' = nextId + 1
        /\ now' = ReadClock
        /\ UNCHANGED <<areas, headings, isAddingTask, addingTaskHeadingId>>

handleConvertToProject(task) ==
    LET newProject ==
            [id |-> nextId, area_id |-> NoId, name |-> task.title,
             notes |-> task.notes, position |-> Len(projects), status |-> "active",
             deadline |-> task.deadline, created_at |-> ReadClock,
             updated_at |-> ReadClock, completed_at |-> NoTime]
    IN  /\ projects' = Append(projects, newProject)
        /\ tasks' = SelectSeq(tasks, LAMBDA t : t.id # task.id)
        /\ activeView' = ProjectViewOf(newProject.id)
        /\ selectedTask' = NoTask
        /\ nextId' = nextId + 1
        /\ now' = ReadClock
        /\ UNCHANGED <<areas, headings, isAddingTask, addingTaskHeadingId>>

handleReorderProjects(reorderedProjects) ==
    LET reorderedIds == Ids(reorderedProjects)
        otherProjects == SelectSeq(projects, LAMBDA p : p.id \notin reorderedIds)
    IN  /\ projects' = reorderedProjects \o otherProjects
        /\ UNCHANGED <<tasks, areas, headings, activeView, isAddingTask,
                       addingTaskHeadingId, selectedTask, now, nextId>>

-----------------------------------------------------------------------------
(* Persistence (Home: the load effect and the four save effects) *)

FORCE_RESEED == FALSE

CollectionText(key, ts, ps, as, hs) ==
    CASE key = TASKS_KEY -> MapSeq(ts, stringifyTask)
      [] key = PROJECTS_KEY -> MapSeq(ps, stringifyProject)
      [] key = AREAS_KEY -> MapSeq(as, stringifyArea)
      [] key = HEADINGS_KEY -> MapSeq(hs, stringifyHeading)

\* localStorage.setItem(key, JSON.stringify(collection)) for each key of keys
saveEffects(st, keys, ts, ps, as, hs) ==
    [k \in Keys |-> IF k \in keys THEN Stored(CollectionText(k, ts, ps, as, hs))
                    ELSE st[k]]

\* the seed branch taken when either slot is absent (|| for &&)
reseedWhenEitherAbsent(st) ==
    FORCE_RESEED \/ ~Truthy(st[TASKS_KEY]) \/ ~Truthy(st[PROJECTS_KEY])

\* the seed branch of the load effect is taken
reseed(st) == FORCE_RESEED \/ (~Truthy(st[TASKS_KEY]) /\ ~Truthy(st[PROJECTS_KEY]))

\* storage as the load effect leaves it
storageAfterLoad(st) ==
    IF reseed(st)
    THEN [st EXCEPT ![TASKS_KEY] = Stored(MapSeq(seedTasks, stringifyTask)),
                    ![PROJECTS_KEY] = Stored(MapSeq(seedProjects, stringifyProject))]
    ELSE st

\* what the load effect sets on a freshly mounted Home (every collection
\* is [] before)
loaded(st) ==
    [isLoaded |-> TRUE,
     tasks |-> IF reseed(st) THEN seedTasks
               ELSE IF Truthy(st[TASKS_KEY]) THEN MapSeq(st[TASKS_KEY].text, parseTask)
               ELSE <<>>,
     projects |-> IF reseed(st) THEN seedProjects
                  ELSE IF Truthy(st[PROJECTS_KEY])
                       THEN MapSeq(st[PROJECTS_KEY].text, parseProject)
                  ELSE <<>>,
     areas |-> IF Truthy(st[AREAS_KEY]) THEN MapSeq(st[AREAS_KEY].text, parseArea)
               ELSE <<>>,
     headings |-> IF Truthy(st[HEADINGS_KEY])
                  THEN MapSeq(st[HEADINGS_KEY].text, parseHeading)
                  ELSE <<>>]

\* the load effect of this instance
loadEffect ==
    /\ tasks' = loaded(storage).tasks
    /\ projects' = loaded(storage).projects
    /\ areas' = loaded(storage).areas
    /\ headings' = loaded(storage).headings
    /\ isLoaded' = TRUE

\* useState initial values of Home (a fresh mount)
mountUi ==
    /\ activeView' = DefaultView
    /\ isAddingTask' = FALSE
    /\ addingTaskHeadingId' = NoId
    /\ selectedTask' = NoTask

\* the save effects of the render that follows a handler, run to completion
Flush(keys) ==
    /\ storage' = saveEffects(storage, keys, tasks', projects', areas', headings')
    /\ pending' = <<>>
    /\ isLoaded' = isLoaded

-----------------------------------------------------------------------------
(* Actions: a user gesture, the handler it calls and the save effects of   *)
(* the render that follows.                                                *)

NoDialog == selectedTask = NoTask /\ ~isAddingTask
Ready == isLoaded /\ pending = <<>>
ClockLeft == now < MaxTime
IdLeft == nextId <= MaxIds

\* opening the app (first start, or a reload of the page): mount, load effect,
\* then the four save effects of the render with isLoaded = true
startupOfHome ==
    /\ pending = <<>>
    /\ mountUi
    /\ loadEffect
    /\ storage' = saveEffects(storageAfterLoad(storage), Keys,
                              tasks', projects', areas', headings')
    /\ pending' = <<>>
    /\ lastOp' = Op("Startup", NoId, NoId, IF reseed(storage) THEN "seed" ELSE "load")
    /\ UNCHANGED <<now, nextId>>

Startup ==
    /\ startupOfHome
    /\ UNCHANGED aside

\* Sidebar navigation, Cmd+1..6, or a result picked in the search overlay
\* (handleSearchSelect goes to the project of a task); with a dialog open
\* only the keyboard ways are left
SetActiveView ==
    /\ Ready
    /\ \E v \in {BucketView(b) : b \in ViewInputs} \cup {LogbookView}
              \cup {ProjectViewOf(p) :
                        p \in IF NoDialog THEN Ids(standaloneProjects)
                              ELSE {t.project_id : t \in Range(tasks)} \ {NoId}} :
          /\ v # activeView
          /\ activeView' = v
    /\ lastOp' = UiOp
    /\ UNCHANGED <<tasks, projects, areas, headings, isAddingTask,
                   addingTaskHeadingId, selectedTask, isLoaded, storage, pending,
                   now, nextId>>
    /\ UNCHANGED aside

\* what a form handler that refuses its input leaves: everything as it was
Refused ==
    UNCHANGED <<tasks, projects, areas, headings, activeView, isAddingTask,
                addingTaskHeadingId, selectedTask, now, nextId>>

\* Sidebar.handleSubmitProject
handleSubmitProject(newProjectName) ==
    IF Trim(newProjectName) # "" THEN handleCreateProject(Trim(newProjectName), NoId)
    ELSE Refused

\* Sidebar form or the Cmd+P dialog
CreateProject ==
    /\ Ready /\ ClockLeft /\ IdLeft
    /\ \E name \in NameInputs :
          /\ handleSubmitProject(name)
          /\ lastOp' = IF Trim(name) # ""
                       THEN Op("handleCreateProject", NoId, nextId, NullText)
                       ELSE Op("handleSubmitProject", NoId, NoId, "refused")
    /\ Flush({PROJECTS_KEY})
    /\ UNCHANGED aside

\* "New Task" of TaskList, or Cmd+N: setIsAddingTask(true)
OpenAddTask ==
    /\ Ready
    /\ ~isAddingTask
    /\ isAddingTask' = TRUE
    /\ lastOp' = UiOp
    /\ UNCHANGED <<tasks, projects, areas, headings, activeView,
                   addingTaskHeadingId, selectedTask, isLoaded, storage, pending,
                   now, nextId>>
    /\ UNCHANGED aside

\* ProjectView onAddTask(headingId): "New Task" (no heading) or "Add task"
\* under one of the project's headings
OpenAddTaskInProject ==
    /\ Ready /\ NoDialog /\ isProjectViewShown
    /\ \E h \in Ids(projectHeadings)
              \cup (IF tasksWithoutHeadingOf(filteredTasks) # <<>> \/ projectHeadings = <<>>
                    THEN {NoId} ELSE {}) :
          addingTaskHeadingId' = h
    /\ isAddingTask' = TRUE
    /\ lastOp' = UiOp
    /\ UNCHANGED <<tasks, projects, areas, headings, activeView, selectedTask,
                   isLoaded, storage, pending, now, nextId>>
    /\ UNCHANGED aside

\* TaskModal.handleSubmit
handleSubmit(title, notes, deadline) ==
    IF Trim(title) # "" THEN handleAddTask(Trim(title), Trim(notes), deadline)
    ELSE Refused

\* the form of TaskModal submitted (Enter, or the button when it is enabled)
SubmitAddTask ==
    /\ Ready /\ ClockLeft /\ IdLeft
    /\ isAddingTask
    /\ \E title \in TitleInputs, deadline \in DeadlineInputs :
          /\ handleSubmit(title, "", deadline)
          /\ lastOp' = IF Trim(title) # ""
                       THEN Op("handleAddTask", nextId, NoId, NullText)
                       ELSE Op("handleSubmit", NoId, NoId, "refused")
    /\ Flush({TASKS_KEY})
    /\ UNCHANGED aside

\* TaskModal onCancel (Cancel, backdrop, Escape in the title input)
CancelAddTask ==
    /\ Ready
    /\ isAddingTask
    /\ isAddingTask' = FALSE
    /\ addingTaskHeadingId' = NoId
    /\ lastOp' = UiOp
    /\ UNCHANGED <<tasks, projects, areas, headings, activeView, selectedTask,
                   isLoaded, storage, pending, now, nextId>>
    /\ UNCHANGED aside

\* handleKeyDown, key Escape (focus outside an input)
Escape ==
    /\ Ready
    /\ selectedTask # NoTask \/ isAddingTask
    /\ selectedTask' = NoTask
    /\ isAddingTask' = FALSE
    /\ lastOp' = UiOp
    /\ UNCHANGED <<tasks, projects, areas, headings, activeView,
                   addingTaskHeadingId, isLoaded, storage, pending, now, nextId>>
    /\ UNCHANGED aside

\* ProjectView.handleAddHeading (the form of the "Add heading" row)
submitHeading(newHeadingName) ==
    IF Trim(newHeadingName) # "" THEN handleAddHeading(Trim(newHeadingName))
    ELSE Refused

AddHeading ==
    /\ Ready /\ NoDialog /\ ClockLeft /\ IdLeft
    /\ isProjectViewShown
    /\ \E name \in NameInputs :
          /\ submitHeading(name)
          /\ lastOp' = IF Trim(name) # ""
                       THEN Op("handleAddHeading", NoId, currentProjectId, NullText)
                       ELSE Op("submitHeading", NoId, NoId, "refused")
    /\ Flush({HEADINGS_KEY})
    /\ UNCHANGED aside

\* the checkbox of a listed task
ToggleTask ==
    /\ Ready /\ NoDialog
    /\ \E t \in ShownTasks :
          /\ t.status # "completed" => ClockLeft
          /\ handleToggleTask(t.id, t.status # "completed")
          /\ lastOp' = Op("handleToggleTask", t.id, NoId,
                          IF t.status # "completed" THEN "complete" ELSE "reopen")
    /\ Flush({TASKS_KEY})
    /\ UNCHANGED aside

\* SchedulePicker of a listed task: a bucket, or Clear when it has a schedule
ScheduleTask ==
    /\ Ready /\ NoDialog
    /\ \E t \in ShownTasks :
          \E sch \in ScheduleInputs \cup (IF t.schedule # NullText THEN {NullText} ELSE {}) :
              /\ handleScheduleTask(t.id, sch)
              /\ lastOp' = Op("handleScheduleTask", t.id, NoId, sch)
    /\ Flush({TASKS_KEY})
    /\ UNCHANGED aside

\* the delete button of a listed task
DeleteTask ==
    /\ Ready /\ NoDialog
    /\ \E t \in ShownTasks :
          /\ handleDeleteTask(t.id)
          /\ lastOp' = Op("handleDeleteTask", t.id, NoId, NullText)
    /\ Flush({TASKS_KEY})
    /\ UNCHANGED <<projects, areas, headings, activeView, isAddingTask,
                   addingTaskHeadingId, selectedTask, now, nextId>>
    /\ UNCHANGED aside

\* Sidebar context menu of a project, or the delete dialog of ProjectView
DeleteProject ==
    /\ Ready /\ NoDialog
    /\ \E p \in Ids(standaloneProjects)
              \cup (IF isProjectViewShown THEN {currentProjectId} ELSE {}) :
          /\ handleDeleteProject(p)
          /\ lastOp' = Op("handleDeleteProject", NoId, p,
                          IF activeView = ProjectViewOf(p) THEN "viewed"
                          ELSE NullText)
    /\ Flush({PROJECTS_KEY, TASKS_KEY, HEADINGS_KEY})
    /\ UNCHANGED aside

\* a listed task dragged onto a project of the sidebar
MoveTaskToProject ==
    /\ Ready /\ NoDialog /\ ClockLeft
    /\ \E t \in ShownTasks, p \in Ids(standaloneProjects) :
          /\ handleMoveTaskToProject(t.id, p)
          /\ lastOp' = Op("handleMoveTaskToProject", t.id, p, NullText)
    /\ Flush({TASKS_KEY})
    /\ UNCHANGED aside

\* a listed task dragged onto a schedule bucket of the sidebar
MoveTaskToSchedule ==
    /\ Ready /\ NoDialog /\ ClockLeft
    /\ \E t \in ShownTasks, b \in ScheduleInputs :
          /\ handleMoveTaskToSchedule(t.id, b)
          /\ lastOp' = Op("handleMoveTaskToSchedule", t.id, NoId, b)
    /\ Flush({TASKS_KEY})
    /\ UNCHANGED aside

\* the rows of the sidebar a task can be released over
NoTarget == [type |-> "none", pid |-> NoId, bucket |-> NullText]
projectRow(p) == [type |-> "project", pid |-> p, bucket |-> NullText]
scheduleRow(b) == [type |-> "schedule", pid |-> NoId, bucket |-> b]

\* the rows of the sidebar that carry data-drop-project or data-drop-schedule:
\* Sidebar sets neither attribute
markedDropTargets == {}

\* TaskList.findDropTarget for a release over a row of the sidebar
findDropTarget(row) == IF row \in markedDropTargets THEN row ELSE NoTarget

\* the move callbacks among the props Home gives TaskList: none
TaskListProps == [onMoveTaskToProject |-> FALSE, onMoveTaskToSchedule |-> FALSE]

\* TaskList.handleTouchEnd with a drag under way
handleTouchEnd(draggingTaskId, row) ==
    LET target == findDropTarget(row)
    IN  IF target.type = "project" /\ TaskListProps.onMoveTaskToProject
        THEN handleMoveTaskToProject(draggingTaskId, target.pid)
        ELSE IF target.type = "schedule" /\ TaskListProps.onMoveTaskToSchedule
        THEN handleMoveTaskToSchedule(draggingTaskId, target.bucket)
        ELSE Refused

\* a task of TaskList long-pressed, dragged and released over a project or a
\* schedule bucket of the sidebar
TouchDrop ==
    /\ Ready /\ NoDialog /\ ClockLeft
    /\ ~isProjectViewShown
    /\ \E t \in ShownTasks,
          row \in {projectRow(p) : p \in Ids(standaloneProjects)}
                     \cup {scheduleRow(b) : b \in ScheduleInputs} :
          /\ handleTouchEnd(t.id, row)
          /\ lastOp' = Op("handleTouchEnd", t.id, row.pid, row.bucket)
    /\ Flush({TASKS_KEY})
    /\ UNCHANGED aside

\* "Move all to Next Week" of the This Week list
SnoozeAll ==
    /\ Ready /\ NoDialog /\ ClockLeft
    /\ ~isProjectViewShown
    /\ activeView = BucketView("this_week")
    /\ filteredTasks # <<>>
    /\ handleSnoozeAllToNextWeek
    /\ Flush({TASKS_KEY})
    /\ lastOp' = Op("handleSnoozeAllToNextWeek", NoId, NoId, NullText)
    /\ UNCHANGED aside

-----------------------------------------------------------------------------
(* TaskDetailModal (rendered for selectedTask; its task prop is that object) *)

\* onTaskClick of a listed task
OpenTaskDetail ==
    /\ Ready /\ NoDialog
    /\ \E t \in ShownTasks : selectedTask' = t
    /\ lastOp' = UiOp
    /\ UNCHANGED <<tasks, projects, areas, headings, activeView, isAddingTask,
                   addingTaskHeadingId, isLoaded, storage, pending, now, nextId>>
    /\ UNCHANGED aside

\* the values the fields of the dialog can hold when Save is pressed
DetailTitles == {selectedTask.title, ""}
DetailSchedules == {selectedTask.schedule} \cup ScheduleInputs
DetailDeadlines == {selectedTask.deadline} \cup DeadlineInputs
DetailProjects ==
    {selectedTask.project_id, NoId}
        \cup Ids(SelectSeq(projects, LAMBDA p : p.status # "completed"))

\* TaskDetailModal.handleSave: onUpdate({...}); onClose()
handleSave(title, notes, schedule, deadline, projectId) ==
    /\ handleUpdateTask(selectedTask.id,
                        [title |-> title, notes |-> notes, schedule |-> schedule,
                         deadline |-> deadline, project_id |-> projectId])
    /\ selectedTask' = NoTask
    /\ UNCHANGED <<projects, areas, headings, activeView, isAddingTask,
                   addingTaskHeadingId, nextId>>

\* handleComplete without completed_at in its update
completeWithoutDate ==
    /\ handleUpdateTask(selectedTask.id, [status |-> "completed"])
    /\ selectedTask' = NoTask
    /\ UNCHANGED <<projects, areas, headings, activeView, isAddingTask,
                   addingTaskHeadingId, nextId>>

\* TaskDetailModal.handleComplete: onUpdate({status, completed_at}); onClose()
handleComplete ==
    /\ handleUpdateTask(selectedTask.id,
                        [status |-> "completed", completed_at |-> ReadClock])
    /\ selectedTask' = NoTask
    /\ UNCHANGED <<projects, areas, headings, activeView, isAddingTask,
                   addingTaskHeadingId, nextId>>

\* TaskDetailModal.handleCancel: onUpdate({status, completed_at}); onClose()
handleCancel ==
    /\ handleUpdateTask(selectedTask.id,
                        [status |-> "cancelled", completed_at |-> ReadClock])
    /\ selectedTask' = NoTask
    /\ UNCHANGED <<projects, areas, headings, activeView, isAddingTask,
                   addingTaskHeadingId, nextId>>

SaveTaskDetail ==
    /\ Ready /\ ClockLeft
    /\ selectedTask # NoTask
    /\ \E title \in DetailTitles, sch \in DetailSchedules,
          deadline \in DetailDeadlines, p \in DetailProjects :
          /\ handleSave(title, selectedTask.notes, sch, deadline, p)
          /\ lastOp' = Op("handleSave", selectedTask.id, p, sch)
    /\ Flush({TASKS_KEY})
    /\ UNCHANGED aside

CompleteTaskDetail ==
    /\ Ready /\ ClockLeft
    /\ selectedTask # NoTask
    /\ handleComplete
    /\ Flush({TASKS_KEY})
    /\ lastOp' = Op("handleComplete", selectedTask.id, NoId, NullText)
    /\ UNCHANGED aside

CancelTaskDetail ==
    /\ Ready /\ ClockLeft
    /\ selectedTask # NoTask
    /\ handleCancel
    /\ Flush({TASKS_KEY})
    /\ lastOp' = Op("handleCancel", selectedTask.id, NoId, NullText)
    /\ UNCHANGED aside

\* onDelete: handleDeleteTask(selectedTask.id); setSelectedTask(null)
DeleteTaskDetail ==
    /\ Ready
    /\ selectedTask # NoTask
    /\ handleDeleteTask(selectedTask.id)
    /\ selectedTask' = NoTask
    /\ Flush({TASKS_KEY})
    /\ lastOp' = Op("handleDeleteTask", selectedTask.id, NoId, NullText)
    /\ UNCHANGED <<projects, areas, headings, activeView, isAddingTask,
                   addingTaskHeadingId, now, nextId>>
    /\ UNCHANGED aside

ConvertToProject ==
    /\ Ready /\ ClockLeft /\ IdLeft
    /\ selectedTask # NoTask
    /\ handleConvertToProject(selectedTask)
    /\ Flush({PROJECTS_KEY, TASKS_KEY})
    /\ lastOp' = Op("handleConvertToProject", selectedTask.id, nextId, NullText)
    /\ UNCHANGED aside

\* onClose (Cancel button, backdrop)
CloseTaskDetail ==
    /\ Ready
    /\ selectedTask # NoTask
    /\ selectedTask' = NoTask
    /\ lastOp' = UiOp
    /\ UNCHANGED <<tasks, projects, areas, headings, activeView, isAddingTask,
                   addingTaskHeadingId, isLoaded, storage, pending, now, nextId>>
    /\ UNCHANGED aside

-----------------------------------------------------------------------------
(* The application before Home is mounted: on a first start storage is     *)
(* empty; otherwise it holds what an earlier session saved.                *)

\* NativeEmojiPicker before the rows are mounted
pickerUnmounted ==
    [env |-> "web", isTauri |-> FALSE, emojiPickerTaskId |-> NoId,
     showCustomPicker |-> FALSE, native |-> "closed"]

\* a second instance before its load effect
otherUnloaded ==
    [isLoaded |-> FALSE, tasks |-> <<>>, projects |-> <<>>, areas |-> <<>>,
     headings |-> <<>>]

\* an earlier session: the seed data, a heading in project 1 with task 3 under
\* it, and task 4 completed after the seed was written
SessionTime == SeedTime + 1
sessionProjects == seedProjects
sessionHeadings ==
    << [id |-> 5, project_id |-> 1, name |-> "soon", position |-> 0,
        created_at |-> SeedTime] >>
sessionTasks ==
    MapSeq(seedTasks,
           LAMBDA t : IF t.id = 3 THEN [t EXCEPT !.heading_id = 5]
                      ELSE [t EXCEPT !.status = "completed",
                                     !.completed_at = SessionTime])

\* storage as that session's save effects left it
sessionStorage ==
    saveEffects([k \in Keys |-> Absent], Keys,
                sessionTasks, sessionProjects, <<>>, sessionHeadings)

\* ProjectView not mounted, no sort preference stored, the emoji picker not
\* mounted, no second instance
\* SpotlightSearch as it mounts: useState('') and useState(0)
spotlightClosed == [query |-> "", selectedIndex |-> 0]

\* TaskList with no finger on it: its state and refs as they are created
touchIdle ==
    [touches |-> {}, rows |-> <<>>, draggingTaskId |-> NoId,
     longPressTimerRef |-> 0, longPressTimers |-> {}, touchStartRef |-> NoId,
     ghostRef |-> FALSE, ghosts |-> 0]

\* no overlay of the keyboard shortcuts open, nothing highlighted, no timer
\* pending, no finger on the list
overlaidIdle ==
    /\ showShortcutsHelp = FALSE
    /\ isAddingProjectViaShortcut = FALSE
    /\ showSearch = FALSE
    /\ highlightedTaskId = NoId
    /\ timers = <<>>
    /\ focus = "page"
    /\ spotlight = spotlightClosed
    /\ touch = touchIdle

asideIdle ==
    /\ sortBy = "manual"
    /\ sortStorage = [p \in 1..MaxIds |-> NullText]
    /\ picker = pickerUnmounted
    /\ other = otherUnloaded
    /\ overlaidIdle

InitialStorages == { [k \in Keys |-> Absent], sessionStorage }

Init ==
    /\ tasks = <<>>
    /\ projects = <<>>
    /\ areas = <<>>
    /\ headings = <<>>
    /\ activeView = DefaultView
    /\ isAddingTask = FALSE
    /\ addingTaskHeadingId = NoId
    /\ selectedTask = NoTask
    /\ isLoaded = FALSE
    /\ storage \in InitialStorages
    /\ pending = <<>>
    /\ now = SessionTime
    /\ nextId = FirstFreeId
    /\ lastOp = NoOp
    /\ asideIdle

Next ==
    \/ Startup
    \/ SetActiveView
    \/ CreateProject
    \/ OpenAddTask
    \/ OpenAddTaskInProject
    \/ SubmitAddTask
    \/ CancelAddTask
    \/ Escape
    \/ AddHeading
    \/ ToggleTask
    \/ ScheduleTask
    \/ DeleteTask
    \/ DeleteProject
    \/ MoveTaskToProject
    \/ MoveTaskToSchedule
    \/ TouchDrop
    \/ SnoozeAll
    \/ OpenTaskDetail
    \/ SaveTaskDetail
    \/ CompleteTaskDetail
    \/ CancelTaskDetail
    \/ DeleteTaskDetail
    \/ ConvertToProject
    \/ CloseTaskDetail

Spec == Init /\ [][Next]_vars

-----------------------------------------------------------------------------
(* Startup over every storage: each slot absent, holding an empty array,   *)
(* or holding what the earlier session saved (an interrupted first start,  *)
(* cleared site data or an older version leave some slots absent).         *)

AnyStorages ==
    {st \in [Keys -> {Absent, Stored(<<>>)} \cup {sessionStorage[k] : k \in Keys}] :
        \A k \in Keys : st[k] \in {Absent, Stored(<<>>), sessionStorage[k]}}

InitLoad ==
    /\ tasks = <<>>
    /\ projects = <<>>
    /\ areas = <<>>
    /\ headings = <<>>
    /\ activeView = DefaultView
    /\ isAddingTask = FALSE
    /\ addingTaskHeadingId = NoId
    /\ selectedTask = NoTask
    /\ isLoaded = FALSE
    /\ storage \in AnyStorages
    /\ pending = <<>>
    /\ now = SessionTime
    /\ nextId = FirstFreeId
    /\ lastOp = NoOp
    /\ asideIdle

NextLoad ==
    \/ Startup
    \/ SetActiveView
    \/ ToggleTask
    \/ ScheduleTask
    \/ DeleteTask
    \/ DeleteProject

SpecLoad == InitLoad /\ [][NextLoad]_vars

-----------------------------------------------------------------------------
(* ProjectView (unnamed/part_003): the sort preference and the order of    *)
(* its groups.  Spec and SpecLoad follow the collections of Home and leave *)
(* the state of ProjectView aside; SpecSort follows it.                    *)

\* the ids of sortOptions
SortOptions == {"manual", "due_date", "schedule", "title", "created"}

\* the deadlines of the saved tasks, as <input type="date"> writes them, in
\* the order of their dates
Dates == <<"2026-01-05", "2026-01-06">>

\* new Date(text).getTime(), up to the unit
getTime(text) == CHOOSE i \in 1..Len(Dates) : Dates[i] = text

\* the titles of the model in the order of localeCompare
Titles == <<"", "call", "milk", "plan">>
localeCompare(a, b) ==
    (CHOOSE i \in 1..Len(Titles) : Titles[i] = a)
        - (CHOOSE i \in 1..Len(Titles) : Titles[i] = b)

\* a.schedule ? scheduleOrder[a.schedule] || 99 : 99
scheduleOrder(schedule) ==
    CASE schedule = "today" -> 1
      [] schedule = "this_week" -> 2
      [] schedule = "next_week" -> 3
      [] schedule = "anytime" -> 4
      [] schedule = "someday" -> 5
      [] OTHER -> 99

\* ProjectView.localTaskOrder as the effect on [tasks] leaves it: the ids of
\* the active tasks by position (ties in the order of the collection)
localTaskOrder == MapSeq(sortedByPosition(activeTasksOf(filteredTasks)), LAMBDA t : t.id)

\* localTaskOrder.indexOf(id)
indexOf(order, id) ==
    IF \E i \in 1..Len(order) : order[i] = id
    THEN (CHOOSE i \in 1..Len(order) : order[i] = id) - 1
    ELSE -1

\* the due_date comparator with the tasks that have no deadline first
compareDeadlineLast(a, b) ==
    IF a.deadline = NullText /\ b.deadline = NullText THEN 0
    ELSE IF a.deadline = NullText THEN -1
    ELSE IF b.deadline = NullText THEN 1
    ELSE getTime(a.deadline) - getTime(b.deadline)

\* case 'due_date' of the comparator
compareDueDate(a, b) ==
    IF a.deadline = NullText /\ b.deadline = NullText THEN 0
    ELSE IF a.deadline = NullText THEN 1
    ELSE IF b.deadline = NullText THEN -1
    ELSE getTime(a.deadline) - getTime(b.deadline)

\* the comparator of sortTasks
compareTasks(mode, a, b) ==
    CASE mode = "manual" ->
            LET aIndex == indexOf(localTaskOrder, a.id)
                bIndex == indexOf(localTaskOrder, b.id)
            IN  IF aIndex = -1 /\ bIndex = -1 THEN 0
                ELSE IF aIndex = -1 THEN 1
                ELSE IF bIndex = -1 THEN -1
                ELSE aIndex - bIndex
      [] mode = "due_date" -> compareDueDate(a, b)
      [] mode = "schedule" -> scheduleOrder(a.schedule) - scheduleOrder(b.schedule)
      [] mode = "title" -> localeCompare(a.title, b.title)
      [] mode = "created" -> b.created_at - a.created_at
      [] OTHER -> 0

\* [...tasksToSort].sort(comparator); the sort is stable: x goes after every
\* element the comparator does not order behind it
RECURSIVE InsertSorted(_, _, _)
InsertSorted(mode, x, s) ==
    IF s = <<>> THEN <<x>>
    ELSE IF compareTasks(mode, x, Head(s)) < 0 THEN <<x>> \o s
    ELSE <<Head(s)>> \o InsertSorted(mode, x, Tail(s))

RECURSIVE sortTasksBy(_, _)
sortTasksBy(mode, s) ==
    IF s = <<>> THEN <<>>
    ELSE InsertSorted(mode, s[Len(s)], sortTasksBy(mode, SubSeq(s, 1, Len(s) - 1)))

sortTasks(tasksToSort) == sortTasksBy(sortBy, tasksToSort)

\* the groups of active tasks ProjectView renders, each as it is displayed
tasksWithoutHeading == sortTasks(tasksWithoutHeadingOf(filteredTasks))
tasksByHeading ==
    [i \in 1..Len(projectHeadings) |->
        sortTasks(tasksOfHeading(filteredTasks, projectHeadings[i]))]
displayedGroups == {tasksWithoutHeading} \cup Range(tasksByHeading)

\* localStorage.getItem(`pocky_project_sort_${id}`) || the initial state
savedSortOr(st, projectId, initial) ==
    IF st[projectId] # NullText THEN st[projectId] ELSE initial

\* the load effect and the save effect of ProjectView after a render with a
\* new project.id, and the save effect of the render that setSortBy causes.
\* Home renders <ProjectView> without a key: going from one project view to
\* another keeps the instance and its sortBy, coming from a list mounts a
\* new one with sortBy = 'manual'.
sortEffects(projectId, rendered) ==
    LET restored == savedSortOr(sortStorage, projectId, rendered)
        saved == [sortStorage EXCEPT ![projectId] = rendered]
    IN  /\ sortBy' = restored
        /\ sortStorage' = IF restored # rendered
                          THEN [saved EXCEPT ![projectId] = restored]
                          ELSE saved

\* Sidebar navigation between the lists and the projects
SwitchView ==
    /\ Ready /\ NoDialog
    /\ \E v \in {BucketView(b) : b \in ViewInputs}
              \cup {ProjectViewOf(p) : p \in Ids(standaloneProjects)} :
          /\ v # activeView
          /\ activeView' = v
          /\ IF IsProjectViewOf(v)
             THEN /\ sortEffects(v.pid, IF isProjectViewShown THEN sortBy ELSE "manual")
                  /\ lastOp' = Op("setActiveView", NoId, v.pid,
                                  IF isProjectViewShown THEN "switched" ELSE "mounted")
             ELSE /\ sortBy' = "manual"
                  /\ sortStorage' = sortStorage
                  /\ lastOp' = Op("setActiveView", NoId, NoId, v.kind)
    /\ UNCHANGED <<tasks, projects, areas, headings, isAddingTask,
                   addingTaskHeadingId, selectedTask, isLoaded, storage, pending,
                   now, nextId, picker, other, overlaid>>

\* an option of the sort menu of ProjectView clicked
SelectSort ==
    /\ Ready /\ NoDialog
    /\ isProjectViewShown
    /\ \E option \in SortOptions :
          /\ sortBy' = option
          /\ sortStorage' = [sortStorage EXCEPT ![currentProjectId] = option]
          /\ lastOp' = Op("setSortBy", NoId, currentProjectId, option)
    /\ UNCHANGED <<tasks, projects, areas, headings, activeView, isAddingTask,
                   addingTaskHeadingId, selectedTask, isLoaded, storage, pending,
                   now, nextId, picker, other, overlaid>>

\* an earlier session that left three active tasks in project 1, each with
\* one of the deadlines or none
sortSessionTasks(d) ==
    [i \in 1..3 |->
        [id |-> i + 2, project_id |-> 1, heading_id |-> NoId,
         title |-> Titles[i + 1], emoji |-> generateEmoji(Titles[i + 1]),
         notes |-> NullText, status |-> "active",
         schedule |-> IF i = 1 THEN "today" ELSE "anytime", deadline |-> d[i],
         position |-> i - 1, created_at |-> IF i = 3 THEN SessionTime ELSE SeedTime,
         updated_at |-> SessionTime, completed_at |-> NoTime]]

SortStorages ==
    {saveEffects([k \in Keys |-> Absent], Keys,
                 sortSessionTasks(d), sessionProjects, <<>>, <<>>) :
        d \in [1..3 -> {NullText} \cup Range(Dates)]}

InitSort ==
    /\ tasks = <<>>
    /\ projects = <<>>
    /\ areas = <<>>
    /\ headings = <<>>
    /\ activeView = DefaultView
    /\ isAddingTask = FALSE
    /\ addingTaskHeadingId = NoId
    /\ selectedTask = NoTask
    /\ isLoaded = FALSE
    /\ storage \in SortStorages
    /\ pending = <<>>
    /\ now = SessionTime
    /\ nextId = FirstFreeId
    /\ lastOp = NoOp
    /\ asideIdle

NextSort ==
    \/ Startup
    \/ SwitchView
    \/ SelectSort

SpecSort == InitSort /\ [][NextSort]_vars

-----------------------------------------------------------------------------
(* The writes one at a time.  Spec runs the save effects of a render to    *)
(* completion; SpecCrash takes every localStorage.setItem as a step of its *)
(* own and lets the process end between any two of them.                   *)

\* the save effects in the order Home declares them
effectOrder == <<TASKS_KEY, PROJECTS_KEY, AREAS_KEY, HEADINGS_KEY>>

\* the save effects a render runs: those whose collection is a new array
scheduled(keys) == SelectSeq(effectOrder, LAMBDA k : k \in keys)

\* every slot written by any one save effect
runEverySaveEffect(st, key) ==
    saveEffects(st, Keys, tasks, projects, areas, headings)

\* localStorage.setItem(key, JSON.stringify(collection))
runSaveEffect(st, key) ==
    saveEffects(st, {key}, tasks, projects, areas, headings)

\* JSON.parse of a slot, [] for a slot that is absent
storedTasks == IF Truthy(storage[TASKS_KEY])
               THEN MapSeq(storage[TASKS_KEY].text, parseTask) ELSE <<>>
storedProjects == IF Truthy(storage[PROJECTS_KEY])
                  THEN MapSeq(storage[PROJECTS_KEY].text, parseProject) ELSE <<>>
storedHeadings == IF Truthy(storage[HEADINGS_KEY])
                  THEN MapSeq(storage[HEADINGS_KEY].text, parseHeading) ELSE <<>>

\* the four save effects without the isLoaded test
saveEffectsUngated(st) ==
    saveEffects(st, Keys, tasks, projects, areas, headings)

\* the four save effects of the render they close over: "if (isLoaded)
\* localStorage.setItem(KEY, JSON.stringify(collection))"
saveEffectsOfRender(st) ==
    IF isLoaded THEN saveEffects(st, Keys, tasks, projects, areas, headings)
    ELSE st

\* Home mounted: the load effect up to its first write, then the save
\* effects of the first render (isLoaded false, every collection []).  The seed branch
\* writes tasks, then projects; the render with isLoaded = true then runs
\* the four save effects.
Mount ==
    /\ ~isLoaded /\ pending = <<>>
    /\ mountUi
    /\ loadEffect
    /\ pending' = (IF reseed(storage) THEN <<TASKS_KEY, PROJECTS_KEY>> ELSE <<>>)
                      \o effectOrder
    /\ lastOp' = Op("loadEffect", NoId, NoId, IF reseed(storage) THEN "seed" ELSE "load")
    /\ storage' = saveEffectsOfRender(storage)
    /\ UNCHANGED <<now, nextId>>
    /\ UNCHANGED aside

\* the next write
RunSaveEffect ==
    /\ pending # <<>>
    /\ storage' = runSaveEffect(storage, Head(pending))
    /\ pending' = Tail(pending)
    /\ lastOp' = Op("setItem", NoId, NoId, Head(pending))
    /\ UNCHANGED <<tasks, projects, areas, headings, activeView, isAddingTask,
                   addingTaskHeadingId, selectedTask, isLoaded, now, nextId>>
    /\ UNCHANGED aside

\* the tab closed, the process killed or the power lost: memory is gone,
\* storage stays
Crash ==
    /\ isLoaded
    /\ tasks' = <<>> /\ projects' = <<>> /\ areas' = <<>> /\ headings' = <<>>
    /\ mountUi
    /\ isLoaded' = FALSE
    /\ pending' = <<>>
    /\ lastOp' = Op("crash", NoId, NoId, IF pending # <<>> THEN "interrupted" ELSE "idle")
    /\ UNCHANGED <<storage, now, nextId>>
    /\ UNCHANGED aside

\* "Delete project" up to the render that follows: setProjects, setTasks and
\* setHeadings each give a new array
DeleteProjectUnsaved ==
    /\ Ready /\ NoDialog
    /\ \E p \in Ids(standaloneProjects) :
          /\ handleDeleteProject(p)
          /\ lastOp' = Op("handleDeleteProject", NoId, p, "unsaved")
    /\ pending' = scheduled({PROJECTS_KEY, TASKS_KEY, HEADINGS_KEY})
    /\ UNCHANGED <<isLoaded, storage>>
    /\ UNCHANGED aside

NextCrash ==
    \/ Mount
    \/ RunSaveEffect
    \/ Crash
    \/ SetActiveView
    \/ DeleteProjectUnsaved

SpecCrash == Init /\ [][NextCrash]_vars

-----------------------------------------------------------------------------
(* Two instances on one storage (two tabs, or the desktop shell and a      *)
(* tab).  The second runs the same Home; its collections are the record    *)
(* other, its view is not followed: any of its tasks can be on screen.     *)

\* a 'storage' event handler that reloads the collection written elsewhere
reloadOnStorageEvent ==
    /\ tasks' = other'.tasks
    /\ UNCHANGED <<projects, areas, headings>>

\* the 'storage' event of a write by the other instance: Home registers no
\* listener for it
onStorageEvent == UNCHANGED <<tasks, projects, areas, headings>>

\* what a step of the other instance leaves of this one
otherStep ==
    /\ onStorageEvent
    /\ UNCHANGED <<activeView, isAddingTask, addingTaskHeadingId, selectedTask,
                   isLoaded, pending, nextId, sortBy, sortStorage, picker,
                   overlaid>>

\* the other instance opened: its load effect, then its four save effects
OtherStartup ==
    /\ other' = loaded(storage)
    /\ storage' = saveEffects(storageAfterLoad(storage), Keys, other'.tasks,
                              other'.projects, other'.areas, other'.headings)
    /\ lastOp' = Op("other:Startup", NoId, NoId, NullText)
    /\ now' = now
    /\ otherStep

\* handleDeleteTask in the other instance and its save effect
OtherDeleteTask ==
    /\ other.isLoaded
    /\ \E t \in Range(other.tasks) :
          /\ other' = [other EXCEPT !.tasks = SelectSeq(@, LAMBDA x : x.id # t.id)]
          /\ lastOp' = Op("other:handleDeleteTask", t.id, NoId, NullText)
    /\ storage' = saveEffects(storage, {TASKS_KEY}, other'.tasks, other'.projects,
                              other'.areas, other'.headings)
    /\ now' = now
    /\ otherStep

\* handleToggleTask in the other instance and its save effect
OtherToggleTask ==
    /\ other.isLoaded
    /\ \E t \in Range(other.tasks) :
          LET completed == t.status # "completed"
          IN  /\ completed => ClockLeft
              /\ other' = [other EXCEPT !.tasks = MapSeq(@, LAMBDA task :
                              IF task.id = t.id
                              THEN [task EXCEPT
                                      !.status = IF completed THEN "completed" ELSE "active",
                                      !.completed_at = IF completed THEN ReadClock ELSE NoTime]
                              ELSE task)]
              /\ now' = IF completed THEN ReadClock ELSE now
              /\ lastOp' = Op("other:handleToggleTask", t.id, NoId,
                              IF completed THEN "complete" ELSE "reopen")
    /\ storage' = saveEffects(storage, {TASKS_KEY}, other'.tasks, other'.projects,
                              other'.areas, other'.headings)
    /\ otherStep

NextTabs ==
    \/ Startup
    \/ SetActiveView
    \/ ToggleTask
    \/ DeleteTask
    \/ OtherStartup
    \/ OtherDeleteTask
    \/ OtherToggleTask

SpecTabs == Init /\ [][NextTabs]_vars

-----------------------------------------------------------------------------
(* The emoji picker of the task rows (TaskList, NativeEmojiPicker,         *)
(* useTauri).  picker.env is where the application runs; the other fields  *)
(* are emojiPickerTaskId of TaskList, and for the row that is open         *)
(* isTauri, showCustomPicker and what became of the native picker.         *)

Envs == {"web", "tauri"}

\* the emoji of the catalog and of the native picker
EmojiInputs == {"apple", "star"}

\* isTauriEnvironment(): '__TAURI__' in window
isTauriEnvironment == picker.env = "tauri"

\* setEmojiPickerTaskId(taskId) and the open effect of the rows: the row
\* that is closed resets showCustomPicker; the row that is opened calls
\* openNativeEmojiPicker() when isTauri and shows the catalog otherwise
openEffect(taskId) ==
    [picker EXCEPT !.emojiPickerTaskId = taskId,
                   !.showCustomPicker = taskId # NoId /\ ~picker.isTauri,
                   !.native = IF taskId # NoId /\ picker.isTauri THEN "requested"
                              ELSE "closed"]

\* Home and its rows mounted: useTauri's effect sets isTauri
PickerStartup ==
    /\ startupOfHome
    /\ picker' = [pickerUnmounted EXCEPT !.env = picker.env,
                                         !.isTauri = isTauriEnvironment]
    /\ UNCHANGED <<sortBy, sortStorage, other, overlaid>>

\* the views are changed with the picker closed
PickerSetActiveView ==
    /\ picker.emojiPickerTaskId = NoId
    /\ SetActiveView

\* the emoji button of a row of TaskList clicked
ToggleEmojiPicker ==
    /\ Ready /\ NoDialog
    /\ ~isProjectViewShown
    /\ \E t \in ShownTasks :
          /\ picker.emojiPickerTaskId \in {NoId, t.id}
          /\ picker' = openEffect(IF picker.emojiPickerTaskId = t.id THEN NoId ELSE t.id)
          /\ lastOp' = Op("setEmojiPickerTaskId", t.id, NoId,
                          IF picker.emojiPickerTaskId = t.id THEN "close" ELSE "open")
    /\ UNCHANGED <<tasks, projects, areas, headings, activeView, isAddingTask,
                   addingTaskHeadingId, selectedTask, isLoaded, storage, pending,
                   now, nextId, sortBy, sortStorage, other, overlaid>>

\* invoke('open_emoji_picker') resolves: the native picker is on screen
NativeOpens ==
    /\ picker.native = "requested"
    /\ picker' = [picker EXCEPT !.native = "shown"]
    /\ lastOp' = Op("openNativeEmojiPicker", picker.emojiPickerTaskId, NoId, "true")
    /\ UNCHANGED <<tasks, projects, areas, headings, activeView, isAddingTask,
                   addingTaskHeadingId, selectedTask, isLoaded, storage, pending,
                   now, nextId, sortBy, sortStorage, other, overlaid>>

\* invoke('open_emoji_picker') rejects: openNativeEmojiPicker logs and
\* returns false to the open effect, which does not await the promise
NativeFails ==
    /\ picker.native = "requested"
    /\ picker' = [picker EXCEPT !.native = "failed"]
    /\ lastOp' = Op("openNativeEmojiPicker", picker.emojiPickerTaskId, NoId, "false")
    /\ UNCHANGED <<tasks, projects, areas, headings, activeView, isAddingTask,
                   addingTaskHeadingId, selectedTask, isLoaded, storage, pending,
                   now, nextId, sortBy, sortStorage, other, overlaid>>

\* an emoji chosen in the catalog, or typed by the native picker into the
\* hidden input: onSelect(emoji), then the picker closed
SelectEmoji ==
    /\ Ready /\ ClockLeft
    /\ picker.emojiPickerTaskId \in Ids(tasks)
    /\ picker.showCustomPicker \/ picker.native = "shown"
    /\ \E emoji \in EmojiInputs :
          /\ handleUpdateTaskEmoji(picker.emojiPickerTaskId, emoji)
          /\ lastOp' = Op("handleUpdateTaskEmoji", picker.emojiPickerTaskId, NoId, emoji)
    /\ picker' = openEffect(NoId)
    /\ Flush({TASKS_KEY})
    /\ UNCHANGED <<sortBy, sortStorage, other, overlaid>>

\* onClose: Escape or a click outside the catalog; the hidden input of the
\* native picker losing the focus while empty
CloseEmojiPicker ==
    /\ Ready
    /\ picker.emojiPickerTaskId # NoId
    /\ picker.showCustomPicker \/ picker.isTauri
    /\ picker' = openEffect(NoId)
    /\ lastOp' = Op("setEmojiPickerTaskId", picker.emojiPickerTaskId, NoId, "onClose")
    /\ UNCHANGED <<tasks, projects, areas, headings, activeView, isAddingTask,
                   addingTaskHeadingId, selectedTask, isLoaded, storage, pending,
                   now, nextId, sortBy, sortStorage, other, overlaid>>

InitPicker ==
    /\ tasks = <<>>
    /\ projects = <<>>
    /\ areas = <<>>
    /\ headings = <<>>
    /\ activeView = DefaultView
    /\ isAddingTask = FALSE
    /\ addingTaskHeadingId = NoId
    /\ selectedTask = NoTask
    /\ isLoaded = FALSE
    /\ storage \in InitialStorages
    /\ pending = <<>>
    /\ now = SessionTime
    /\ nextId = FirstFreeId
    /\ lastOp = NoOp
    /\ sortBy = "manual"
    /\ sortStorage = [p \in 1..MaxIds |-> NullText]
    /\ picker \in {[pickerUnmounted EXCEPT !.env = e] : e \in Envs}
    /\ other = otherUnloaded
    /\ overlaidIdle

NextPicker ==
    \/ PickerStartup
    \/ PickerSetActiveView
    \/ ToggleEmojiPicker
    \/ NativeOpens
    \/ NativeFails
    \/ SelectEmoji
    \/ CloseEmojiPicker

SpecPicker == InitPicker /\ [][NextPicker]_vars

-----------------------------------------------------------------------------
(* The sidebar's project list dragged into a new order.  SpecReorder       *)
(* follows the projects only; its storage may also hold a project the      *)
(* sidebar does not list (a completed one).                                *)

\* a project of the list dragged over its neighbour: Reorder.Group calls
\* onReorder with the two exchanged
ReorderProjects ==
    /\ Ready /\ NoDialog
    /\ \E i \in 1..(Len(standaloneProjects) - 1) :
          /\ handleReorderProjects(handleReorder(swapped(standaloneProjects, i)))
          /\ lastOp' = Op("handleReorderProjects", NoId, standaloneProjects[i + 1].id,
                          NullText)
    /\ Flush({PROJECTS_KEY})
    /\ UNCHANGED aside

\* the saved session with project 2 completed
archiveProjects ==
    MapSeq(sessionProjects,
           LAMBDA p : IF p.id = 2 THEN [p EXCEPT !.status = "completed",
                                                 !.completed_at = SessionTime]
                      ELSE p)

archiveStorage ==
    saveEffects([k \in Keys |-> Absent], Keys,
                sessionTasks, archiveProjects, <<>>, sessionHeadings)

InitReorder ==
    /\ tasks = <<>>
    /\ projects = <<>>
    /\ areas = <<>>
    /\ headings = <<>>
    /\ activeView = DefaultView
    /\ isAddingTask = FALSE
    /\ addingTaskHeadingId = NoId
    /\ selectedTask = NoTask
    /\ isLoaded = FALSE
    /\ storage \in InitialStorages \cup {archiveStorage}
    /\ pending = <<>>
    /\ now = SessionTime
    /\ nextId = FirstFreeId
    /\ lastOp = NoOp
    /\ asideIdle

NextReorder ==
    \/ Startup
    \/ SetActiveView
    \/ CreateProject
    \/ DeleteProject
    \/ ReorderProjects

SpecReorder == InitReorder /\ [][NextReorder]_vars

-----------------------------------------------------------------------------
(* The overlays of Home and the keyboard.  Home renders, in this order,    *)
(* TaskModal, TaskDetailModal, the new-project dialog, the shortcuts help  *)
(* and SpotlightSearch, each "fixed inset-0 z-50": a later one covers an   *)
(* earlier one.  focus is "page" when the focused element is no input or   *)
(* textarea, else the overlay whose input has the focus.                   *)

\* the components under Home and the other instance
beneath == <<sortBy, sortStorage, picker, other>>

overlayOrder == <<"task", "detail", "project", "help", "search">>

\* the overlays rendered for these values of Home's state
openOf(adding, selected, addingProject, help, search) ==
    {o \in Range(overlayOrder) :
        \/ o = "task" /\ adding
        \/ o = "detail" /\ selected # NoTask
        \/ o = "project" /\ addingProject
        \/ o = "help" /\ help
        \/ o = "search" /\ search}

openOverlays ==
    openOf(isAddingTask, selectedTask, isAddingProjectViaShortcut,
           showShortcutsHelp, showSearch)

\* the overlay that covers the others
topmost(open) ==
    overlayOrder[CHOOSE i \in 1..Len(overlayOrder) :
                    /\ overlayOrder[i] \in open
                    /\ \A j \in (i + 1)..Len(overlayOrder) : overlayOrder[j] \notin open]

\* an input that is unmounted loses the focus to the page
focusAfter(f, open) == IF f \in open THEN f ELSE "page"

\* Home mounted with the state useState gives it, no timer, no finger down
mountOverlaid ==
    /\ showShortcutsHelp' = FALSE
    /\ isAddingProjectViaShortcut' = FALSE
    /\ showSearch' = FALSE
    /\ highlightedTaskId' = NoId
    /\ timers' = <<>>
    /\ focus' = "page"
    /\ spotlight' = spotlightClosed
    /\ touch' = touchIdle

OverlayStartup ==
    /\ startupOfHome
    /\ mountOverlaid
    /\ UNCHANGED beneath

\* a task of the list clicked: nothing covers the list
ClickTask ==
    /\ openOverlays = {}
    /\ OpenTaskDetail

\* handleKeyDown, Cmd+N: the title input of TaskModal has autoFocus
KeyNewTask ==
    /\ Ready
    /\ focus = "page" /\ ~isAddingTask
    /\ isAddingTask' = TRUE
    /\ focus' = "task"
    /\ lastOp' = Op("handleKeyDown", NoId, NoId, "n")
    /\ UNCHANGED <<tasks, projects, areas, headings, activeView,
                   addingTaskHeadingId, selectedTask, isLoaded, storage, pending,
                   now, nextId>>
    /\ UNCHANGED <<showShortcutsHelp, isAddingProjectViaShortcut, showSearch,
                   highlightedTaskId, timers, spotlight, touch>>
    /\ UNCHANGED beneath

\* handleKeyDown, Cmd+P: the name input of the dialog has autoFocus
KeyNewProject ==
    /\ Ready
    /\ focus = "page" /\ ~isAddingProjectViaShortcut
    /\ isAddingProjectViaShortcut' = TRUE
    /\ focus' = "project"
    /\ lastOp' = Op("handleKeyDown", NoId, NoId, "p")
    /\ UNCHANGED <<tasks, projects, areas, headings, activeView, isAddingTask,
                   addingTaskHeadingId, selectedTask, isLoaded, storage, pending,
                   now, nextId>>
    /\ UNCHANGED <<showShortcutsHelp, showSearch, highlightedTaskId, timers,
                   spotlight, touch>>
    /\ UNCHANGED beneath

\* handleKeyDown, Cmd+F: SpotlightSearch mounts, its input has autoFocus
KeySearch ==
    /\ Ready
    /\ focus = "page" /\ ~showSearch
    /\ showSearch' = TRUE
    /\ spotlight' = spotlightClosed
    /\ focus' = "search"
    /\ lastOp' = Op("handleKeyDown", NoId, NoId, "f")
    /\ UNCHANGED <<tasks, projects, areas, headings, activeView, isAddingTask,
                   addingTaskHeadingId, selectedTask, isLoaded, storage, pending,
                   now, nextId>>
    /\ UNCHANGED <<showShortcutsHelp, isAddingProjectViaShortcut,
                   highlightedTaskId, timers, touch>>
    /\ UNCHANGED beneath

\* TaskList's effect on [tasks]: Home computes filteredTasks anew in every
\* render, so the effect runs after every render of Home
resetEffect(tch) == [tch EXCEPT !.draggingTaskId = NoId]

\* handleKeyDown, Cmd+/: setShowShortcutsHelp(prev => !prev); Home renders
KeyHelp ==
    /\ Ready
    /\ focus = "page"
    /\ showShortcutsHelp' = ~showShortcutsHelp
    /\ lastOp' = Op("handleKeyDown", NoId, NoId, "/")
    /\ UNCHANGED <<tasks, projects, areas, headings, activeView, isAddingTask,
                   addingTaskHeadingId, selectedTask, isLoaded, storage, pending,
                   now, nextId>>
    /\ touch' = resetEffect(touch)
    /\ UNCHANGED <<isAddingProjectViaShortcut, showSearch, highlightedTaskId,
                   timers, focus, spotlight>>
    /\ UNCHANGED beneath

\* the focus moved: Tab from an input to a button, a click on the panel of
\* the topmost overlay (to the page), or a click into its input
MoveFocus ==
    /\ Ready
    /\ openOverlays # {}
    /\ \E f \in {"page"} \cup ({topmost(openOverlays)} \ {"help"}) :
          /\ f # focus
          /\ focus' = f
    /\ lastOp' = UiOp
    /\ UNCHANGED <<tasks, projects, areas, headings, activeView, isAddingTask,
                   addingTaskHeadingId, selectedTask, isLoaded, storage, pending,
                   now, nextId>>
    /\ UNCHANGED <<showShortcutsHelp, isAddingProjectViaShortcut, showSearch,
                   highlightedTaskId, timers, spotlight, touch>>
    /\ UNCHANGED beneath

\* the Escape key with an overlay open or a task highlighted.  The keydown
\* event reaches the
\* onKeyDown of TaskModal's title input when that has the focus (onCancel),
\* the window listener of SpotlightSearch when it is mounted (onClose), and
\* the window listener of Home, which returns at once when the target is
\* an input or a textarea
EscapeKey ==
    /\ Ready
    /\ openOverlays # {} \/ highlightedTaskId # NoId
    /\ LET ofHome == focus = "page"
           ofTaskModal == focus = "task"
           ofSpotlight == showSearch
       IN  /\ showShortcutsHelp' = (showShortcutsHelp /\ ~ofHome)
           /\ showSearch' = (showSearch /\ ~ofHome /\ ~ofSpotlight)
           /\ selectedTask' = IF ofHome THEN NoTask ELSE selectedTask
           /\ isAddingTask' = (isAddingTask /\ ~ofHome /\ ~ofTaskModal)
           /\ addingTaskHeadingId' = IF ofTaskModal THEN NoId ELSE addingTaskHeadingId
           /\ highlightedTaskId' = IF ofHome THEN NoId ELSE highlightedTaskId
    /\ focus' = focusAfter(focus, openOf(isAddingTask', selectedTask',
                                         isAddingProjectViaShortcut,
                                         showShortcutsHelp', showSearch'))
    /\ lastOp' = Op("Escape", NoId, NoId, focus)
    /\ UNCHANGED <<tasks, projects, areas, headings, activeView, isLoaded,
                   storage, pending, now, nextId>>
    /\ UNCHANGED <<isAddingProjectViaShortcut, timers, spotlight, touch>>
    /\ UNCHANGED beneath

\* the backdrop of the topmost overlay clicked (or its Cancel or Close
\* button): onCancel of TaskModal, onClose of the others
CloseTopmost ==
    /\ Ready
    /\ openOverlays # {}
    /\ LET top == topmost(openOverlays)
       IN  /\ isAddingTask' = (isAddingTask /\ top # "task")
           /\ addingTaskHeadingId' = IF top = "task" THEN NoId ELSE addingTaskHeadingId
           /\ selectedTask' = IF top = "detail" THEN NoTask ELSE selectedTask
           /\ isAddingProjectViaShortcut' = (isAddingProjectViaShortcut /\ top # "project")
           /\ showShortcutsHelp' = (showShortcutsHelp /\ top # "help")
           /\ showSearch' = (showSearch /\ top # "search")
           /\ lastOp' = Op("onClose", NoId, NoId, top)
    /\ focus' = "page"
    /\ UNCHANGED <<tasks, projects, areas, headings, activeView, isLoaded,
                   storage, pending, now, nextId>>
    /\ UNCHANGED <<highlightedTaskId, timers, spotlight, touch>>
    /\ UNCHANGED beneath

NextOverlay ==
    \/ OverlayStartup
    \/ ClickTask
    \/ KeyNewTask
    \/ KeyNewProject
    \/ KeySearch
    \/ KeyHelp
    \/ MoveFocus
    \/ EscapeKey
    \/ CloseTopmost

SpecOverlay == Init /\ [][NextOverlay]_vars

-----------------------------------------------------------------------------
(* SpotlightSearch (page.tsx) and handleSearchSelect.  The texts typed are *)
(* QueryInputs; the timers of handleSearchSelect all wait 2000 ms, so they *)
(* run in the order they were set.                                         *)

MaxTimers == 2    \* selections made before the oldest timer has run

QueryInputs == {"", "a", "pl", "zz"}

\* text.toLowerCase().includes(query.toLowerCase()) on the texts of the model
includes(text, query) ==
    CASE query = "" -> TRUE
      [] query = "a" -> text \in {"plan", "call"}
      [] query = "pl" -> text = "plan"
      [] OTHER -> FALSE

\* SpotlightSearch.filteredTasks (and flatResults, the same array)
flatResultsOf(ts, query) ==
    IF Trim(query) # ""
    THEN SelectSeq(ts, LAMBDA task :
            \/ includes(task.title, query)
            \/ task.notes # NullText /\ includes(task.notes, query))
    ELSE <<>>

flatResults == flatResultsOf(tasks, spotlight.query)

\* Math.min and Math.max
Min(a, b) == IF a < b THEN a ELSE b
Max(a, b) == IF a > b THEN a ELSE b

\* ArrowDown without the Math.min
arrowDownUnbounded(prev, length) == prev + 1

\* setSelectedIndex(prev => Math.min(prev + 1, flatResults.length - 1))
arrowDown(prev, length) == Min(prev + 1, length - 1)

\* setSelectedIndex(prev => Math.max(prev - 1, 0))
arrowUp(prev) == Max(prev - 1, 0)

handleSearchSelect(task, projectId) ==
    /\ showSearch' = FALSE
    /\ activeView' = IF projectId # NoId THEN ProjectViewOf(projectId)
                     ELSE IF task.schedule \notin {NullText, ""}
                          THEN BucketView(task.schedule)
                     ELSE activeView
    /\ highlightedTaskId' = task.id
    /\ timers' = Append(timers, task.id)
    /\ UNCHANGED <<tasks, projects, areas, headings, isAddingTask,
                   addingTaskHeadingId, selectedTask, now, nextId>>

\* the query edited (the clear button sets ''); the effect on [query] then
\* sets selectedIndex to 0
TypeQuery ==
    /\ Ready /\ showSearch
    /\ \E q \in QueryInputs :
          /\ q # spotlight.query
          /\ spotlight' = [query |-> q, selectedIndex |-> 0]
    /\ lastOp' = Op("setQuery", NoId, NoId, NullText)
    /\ UNCHANGED <<tasks, projects, areas, headings, activeView, isAddingTask,
                   addingTaskHeadingId, selectedTask, isLoaded, storage, pending,
                   now, nextId>>
    /\ UNCHANGED <<showShortcutsHelp, isAddingProjectViaShortcut, showSearch,
                   highlightedTaskId, timers, focus, touch>>
    /\ UNCHANGED beneath

\* SpotlightSearch.handleKeyDown, ArrowDown and ArrowUp
ArrowKey ==
    /\ Ready /\ showSearch
    /\ \E key \in {"ArrowDown", "ArrowUp"} :
          /\ spotlight' =
                [spotlight EXCEPT !.selectedIndex =
                    IF key = "ArrowDown" THEN arrowDown(@, Len(flatResults))
                    ELSE arrowUp(@)]
          /\ lastOp' = Op("setSelectedIndex", NoId, NoId, key)
    /\ UNCHANGED <<tasks, projects, areas, headings, activeView, isAddingTask,
                   addingTaskHeadingId, selectedTask, isLoaded, storage, pending,
                   now, nextId>>
    /\ UNCHANGED <<showShortcutsHelp, isAddingProjectViaShortcut, showSearch,
                   highlightedTaskId, timers, focus, touch>>
    /\ UNCHANGED beneath

\* SpotlightSearch.handleKeyDown, Enter: flatResults[selectedIndex] when
\* there is one
EnterKey ==
    /\ Ready /\ showSearch
    /\ Len(timers) < MaxTimers
    /\ spotlight.selectedIndex \in 0..(Len(flatResults) - 1)
    /\ LET task == flatResults[spotlight.selectedIndex + 1]
       IN  /\ handleSearchSelect(task, task.project_id)
           /\ lastOp' = Op("handleSearchSelect", task.id, task.project_id, "Enter")
    /\ focus' = "page"
    /\ UNCHANGED <<isLoaded, storage, pending>>
    /\ UNCHANGED <<showShortcutsHelp, isAddingProjectViaShortcut, spotlight, touch>>
    /\ UNCHANGED beneath

\* a result clicked
ClickResult ==
    /\ Ready /\ showSearch
    /\ Len(timers) < MaxTimers
    /\ \E i \in 1..Len(flatResults) :
          LET task == flatResults[i]
          IN  /\ handleSearchSelect(task, task.project_id)
              /\ lastOp' = Op("handleSearchSelect", task.id, task.project_id, "click")
    /\ focus' = "page"
    /\ UNCHANGED <<isLoaded, storage, pending>>
    /\ UNCHANGED <<showShortcutsHelp, isAddingProjectViaShortcut, spotlight, touch>>
    /\ UNCHANGED beneath

\* the oldest timer of handleSearchSelect runs: setHighlightedTaskId(null)
TimerFires ==
    /\ Ready
    /\ timers # <<>>
    /\ highlightedTaskId' = NoId
    /\ timers' = Tail(timers)
    /\ lastOp' = Op("setTimeout", Head(timers), NoId, NullText)
    /\ UNCHANGED <<tasks, projects, areas, headings, activeView, isAddingTask,
                   addingTaskHeadingId, selectedTask, isLoaded, storage, pending,
                   now, nextId>>
    /\ UNCHANGED <<showShortcutsHelp, isAddingProjectViaShortcut, showSearch,
                   focus, spotlight, touch>>
    /\ UNCHANGED beneath

NextSearch ==
    \/ OverlayStartup
    \/ KeySearch
    \/ TypeQuery
    \/ ArrowKey
    \/ EnterKey
    \/ ClickResult
    \/ TimerFires
    \/ EscapeKey

SpecSearch == Init /\ [][NextSearch]_vars

-----------------------------------------------------------------------------
(* The touch drag of TaskList (EmojiPicker.tsx).  A finger is known by the *)
(* number of its touchstart; touch.rows[n] is the row finger n went down   *)
(* on, and timer n is the long-press timer that touchstart set.  A move is *)
(* "far" when it is more than 10 px from touchStartRef.                    *)

MaxTouchStarts == 2   \* touchstart events followed
MaxFingers == 2       \* fingers down at once

\* clearTimeout(longPressTimerRef.current); longPressTimerRef.current = null
clearLongPress(tch) ==
    [tch EXCEPT !.longPressTimers = @ \ {tch.longPressTimerRef},
                !.longPressTimerRef = 0]

\* removeGhost: the element of ghostRef, then one found by getElementById
removeGhost(tch) ==
    LET left == IF tch.ghostRef THEN tch.ghosts - 1 ELSE tch.ghosts
    IN  [tch EXCEPT !.ghostRef = FALSE,
                    !.ghosts = IF left > 0 THEN left - 1 ELSE left]

handleTouchStart(tch, taskId) ==
    LET n == Len(tch.rows) + 1
    IN  [tch EXCEPT !.rows = Append(@, taskId),
                    !.touchStartRef = taskId,
                    !.longPressTimerRef = n,
                    !.longPressTimers = @ \cup {n}]

handleTouchMove(tch, far) ==
    IF tch.draggingTaskId = NoId /\ tch.longPressTimerRef # 0 /\ tch.touchStartRef # NoId
    THEN IF far THEN clearLongPress(tch) ELSE tch
    ELSE tch

\* the callback of the long-press timer n
longPress(tch, n) ==
    IF tch.rows[n] \in Ids(filteredTasks)
    THEN [tch EXCEPT !.longPressTimers = @ \ {n},
                     !.draggingTaskId = tch.rows[n],
                     !.ghostRef = TRUE,
                     !.ghosts = @ + 1]
    ELSE [tch EXCEPT !.longPressTimers = @ \ {n}]

\* what handleTouchEnd leaves of the gesture
touchEnded(tch) ==
    LET cleared == clearLongPress(tch)
    IN  IF tch.draggingTaskId = NoId \/ tch.touchStartRef = NoId
        THEN [cleared EXCEPT !.touchStartRef = NoId]
        ELSE [removeGhost(cleared) EXCEPT !.draggingTaskId = NoId,
                                         !.touchStartRef = NoId]

handleTouchCancel(tch) ==
    [removeGhost(clearLongPress(tch)) EXCEPT !.draggingTaskId = NoId,
                                            !.touchStartRef = NoId]

\* what a touch event leaves of Home and of the other components
touchFrame ==
    /\ UNCHANGED <<isLoaded, storage, pending>>
    /\ UNCHANGED <<showShortcutsHelp, isAddingProjectViaShortcut, showSearch,
                   highlightedTaskId, timers, focus, spotlight>>
    /\ UNCHANGED beneath

\* a finger put on a row of the list
TouchStart ==
    /\ Ready
    /\ openOverlays = {} /\ ~isProjectViewShown
    /\ Len(touch.rows) < MaxTouchStarts
    /\ Cardinality(touch.touches) < MaxFingers
    /\ \E t \in ShownTasks :
          /\ touch' = [handleTouchStart(touch, t.id)
                           EXCEPT !.touches = @ \cup {Len(touch.rows) + 1}]
          /\ lastOp' = Op("handleTouchStart", t.id, NoId, NullText)
    /\ Refused
    /\ touchFrame

\* a finger moved, by 10 px at most or by more
TouchMove ==
    /\ Ready
    /\ touch.touches # {}
    /\ \E far \in BOOLEAN :
          /\ touch' = handleTouchMove(touch, far)
          /\ touch' # touch
          /\ lastOp' = Op("handleTouchMove", NoId, NoId, IF far THEN "far" ELSE "near")
    /\ Refused
    /\ touchFrame

\* 250 ms after a touchstart whose timer was not cleared
LongPressTimer ==
    /\ Ready
    /\ \E n \in touch.longPressTimers :
          /\ touch' = longPress(touch, n)
          /\ lastOp' = Op("longPressTimer", touch.rows[n], NoId,
                          IF n \in touch.touches THEN "held" ELSE "lifted")
    /\ Refused
    /\ touchFrame

\* a finger lifted: findDropTarget finds no marked row (see TouchDrop)
TouchEnd ==
    /\ Ready
    /\ \E n \in touch.touches :
          /\ touch' = [touchEnded(touch) EXCEPT !.touches = @ \ {n}]
          /\ lastOp' = Op("handleTouchEnd", touch.draggingTaskId, NoId, NullText)
    /\ handleTouchEnd(touch.draggingTaskId, NoTarget)
    /\ touchFrame

\* the system takes the touch away (a call, a gesture of the system)
TouchCancel ==
    /\ Ready
    /\ \E n \in touch.touches :
          /\ touch' = [handleTouchCancel(touch) EXCEPT !.touches = @ \ {n}]
          /\ lastOp' = Op("handleTouchCancel", touch.draggingTaskId, NoId, NullText)
    /\ Refused
    /\ touchFrame

NextTouch ==
    \/ OverlayStartup
    \/ TouchStart
    \/ TouchMove
    \/ LongPressTimer
    \/ TouchEnd
    \/ TouchCancel
    \/ KeyHelp

SpecTouch == Init /\ [][NextTouch]_vars

-----------------------------------------------------------------------------
(* Properties *)

\* the task with this id in a collection that holds one
TaskOf(ts, id) == CHOOSE t \in Range(ts) : t.id = id

\* every task but the one with this id, in order
OtherTasks(ts, id) == SelectSeq(ts, LAMBDA t : t.id # id)

\* C1: handleDeleteProject(P) removes project P, every task whose project_id
\* is P and every heading whose project_id is P, and leaves every other
\* project, task and heading (and the areas) unchanged.
DeleteProjectCascades ==
    [][lastOp'.op = "handleDeleteProject" =>
        LET P == lastOp'.project
        IN  /\ P \in Ids(projects)
            /\ Range(projects') = {p \in Range(projects) : p.id # P}
            /\ Range(tasks') = {t \in Range(tasks) : t.project_id # P}
            /\ Range(headings') = {h \in Range(headings) : h.project_id # P}
            /\ Len(projects') = Cardinality(Range(projects'))
            /\ Len(tasks') = Cardinality(Range(tasks'))
            /\ Len(headings') = Cardinality(Range(headings'))
            /\ areas' = areas]_vars

\* C1: project 1 of the saved session (it held heading 5) has just been
\* deleted; project 2 and task 4 are left as they were
DeleteProjectCascadesWitness ==
    /\ lastOp.op = "handleDeleteProject" /\ lastOp.project = 1
    /\ now = SessionTime /\ nextId = FirstFreeId
    /\ Ids(projects) = {2}
    /\ Ids(tasks) = {4} /\ TaskOf(tasks, 4).completed_at = SessionTime
    /\ headings = <<>>
    /\ storage[HEADINGS_KEY] = Stored(<<>>)

\* C2: every completed task has a completed_at, whether it was completed by
\* the checkbox or in the task detail dialog, and handleToggleTask with
\* completed = false leaves the task active with completed_at null.
CompletedHasCompletedAt ==
    /\ [](\A t \in Range(tasks) : t.status = "completed" => t.completed_at # NoTime)
    /\ [][(lastOp'.op = "handleToggleTask" /\ lastOp'.arg = "reopen" =>
              /\ TaskOf(tasks', lastOp'.task).status = "active"
              /\ TaskOf(tasks', lastOp'.task).completed_at = NoTime)
          /\ (lastOp'.op = "handleComplete"
                \/ (lastOp'.op = "handleToggleTask" /\ lastOp'.arg = "complete") =>
              /\ TaskOf(tasks', lastOp'.task).status = "completed"
              /\ TaskOf(tasks', lastOp'.task).completed_at = now'
              /\ now' > now)]_vars

\* C2: task 4 has just been reopened by its checkbox while task 3 is
\* completed, and it was completed in the task detail dialog
CompletedHasCompletedAtWitness ==
    /\ lastOp.op = "handleToggleTask" /\ lastOp.arg = "reopen" /\ lastOp.task = 4
    /\ 4 \in Ids(tasks) /\ TaskOf(tasks, 4).status = "active"
    /\ TaskOf(tasks, 4).completed_at = NoTime
    /\ 3 \in Ids(tasks) /\ TaskOf(tasks, 3).status = "completed"
    /\ TaskOf(tasks, 3).updated_at = TaskOf(tasks, 3).completed_at

\* C3: no task and no heading has a project_id that names a project absent
\* from the projects collection.
NoDanglingProject ==
    /\ \A t \in Range(tasks) : t.project_id # NoId => t.project_id \in Ids(projects)
    /\ \A h \in Range(headings) : h.project_id \in Ids(projects)

\* C3: a project has just been deleted while a task moved into another
\* project since the start, and a heading, are still there
NoDanglingProjectWitness ==
    /\ lastOp.op = "handleDeleteProject"
    /\ \E t \in Range(tasks) : t.project_id # NoId /\ t.updated_at > SessionTime
    /\ headings # <<>>

\* C4 as stated: handleMoveTaskToSchedule(T, B) sets T.schedule to B and
\* T.heading_id to null.
MoveToScheduleClearsHeading ==
    [][lastOp'.op = "handleMoveTaskToSchedule" =>
        /\ TaskOf(tasks', lastOp'.task).schedule = lastOp'.arg
        /\ TaskOf(tasks', lastOp'.task).heading_id = NoId]_vars

\* C4, amended: handleMoveTaskToSchedule(T, B) sets T.schedule to B and
\* T.updated_at to the time of the drop; it leaves T.heading_id, T.project_id
\* and every other field of T, and every other task, unchanged.
MoveToScheduleKeepsHeading ==
    [][lastOp'.op = "handleMoveTaskToSchedule" =>
        LET T == lastOp'.task
            old == TaskOf(tasks, T)
        IN  /\ T \in Ids(tasks)
            /\ now' > now
            /\ TaskOf(tasks', T) = [old EXCEPT !.schedule = lastOp'.arg,
                                               !.updated_at = now']
            /\ TaskOf(tasks', T).heading_id = old.heading_id
            /\ OtherTasks(tasks', T) = OtherTasks(tasks, T)
            /\ Len(tasks') = Len(tasks)]_vars

\* C4: task 3, which is under heading 5, has just been dropped on Someday
MoveToScheduleKeepsHeadingWitness ==
    /\ lastOp.op = "handleMoveTaskToSchedule" /\ lastOp.task = 3
    /\ lastOp.arg = "someday"
    /\ TaskOf(tasks, 3).schedule = "someday"
    /\ TaskOf(tasks, 3).heading_id = 5
    /\ TaskOf(tasks, 3).updated_at = now

\* C5: handleMoveTaskToProject(T, P) sets T.project_id to P and T.heading_id
\* to null, and changes no field of any other task.
MoveToProjectClearsHeading ==
    [][lastOp'.op = "handleMoveTaskToProject" =>
        LET T == lastOp'.task
        IN  /\ T \in Ids(tasks)
            /\ TaskOf(tasks', T).project_id = lastOp'.project
            /\ TaskOf(tasks', T).heading_id = NoId
            /\ Len(tasks') = Len(tasks)
            /\ \A i \in 1..Len(tasks) :
                  IF tasks[i].id = T THEN tasks'[i].id = T
                  ELSE tasks'[i] = tasks[i]]_vars

\* C5: task 3 of the saved session, which was under heading 5 of project 1,
\* has just been dropped on project 2; task 4 is as the session left it
MoveToProjectClearsHeadingWitness ==
    /\ lastOp.op = "handleMoveTaskToProject" /\ lastOp.task = 3
    /\ lastOp.project = 2
    /\ now = SessionTime + 1
    /\ TaskOf(tasks, 3).project_id = 2
    /\ TaskOf(tasks, 3).heading_id = NoId
    /\ 5 \in Ids(headings)
    /\ 4 \in Ids(tasks) /\ TaskOf(tasks, 4).completed_at = SessionTime

\* C6: with the writes of the last change done, a restart that reloads the
\* four collections from storage leaves tasks, projects, areas and headings
\* in memory identical to what they were before the restart.
ReloadYieldsSameCollections ==
    [][lastOp'.op = "Startup" /\ isLoaded /\ pending = <<>> =>
        /\ tasks' = tasks
        /\ projects' = projects
        /\ areas' = areas
        /\ headings' = headings]_vars

\* C6: the application has just been restarted after a session that created
\* a record and deleted others, and holds that session's collections
ReloadYieldsSameCollectionsWitness ==
    /\ lastOp.op = "Startup" /\ lastOp.arg = "load"
    /\ now > SessionTime /\ nextId > FirstFreeId
    /\ Len(tasks) + Len(projects) + Len(headings) < 5
    /\ storage[TASKS_KEY] = Stored(MapSeq(tasks, stringifyTask))
    /\ \E t \in Range(tasks) : t.completed_at = NoTime /\ t.project_id = NoId

\* C7: on startup the seed dataset is put in memory and written to storage
\* if and only if both the tasks slot and the projects slot are absent; when
\* one of the two is present, memory holds what the slots held (nothing for
\* an absent slot) and storage holds just that.
SeedOnlyWhenNothingSaved ==
    [][lastOp'.op = "Startup" =>
        LET held(k) == IF storage[k].present THEN storage[k].text ELSE <<>>
        IN  IF ~storage[TASKS_KEY].present /\ ~storage[PROJECTS_KEY].present
            THEN /\ tasks' = seedTasks
                 /\ projects' = seedProjects
                 /\ storage'[TASKS_KEY] = Stored(MapSeq(seedTasks, stringifyTask))
                 /\ storage'[PROJECTS_KEY] =
                        Stored(MapSeq(seedProjects, stringifyProject))
            ELSE /\ MapSeq(tasks', stringifyTask) = held(TASKS_KEY)
                 /\ MapSeq(projects', stringifyProject) = held(PROJECTS_KEY)
                 /\ storage'[TASKS_KEY] = Stored(held(TASKS_KEY))
                 /\ storage'[PROJECTS_KEY] = Stored(held(PROJECTS_KEY))]_vars

\* C7: the application has started from a storage whose tasks slot held the
\* saved session and whose projects slot was absent: the tasks are loaded,
\* task 3 still names project 1, and there is no project
SeedOnlyWhenNothingSavedWitness ==
    /\ lastOp.op = "Startup"
    /\ projects = <<>>
    /\ tasks = sessionTasks
    /\ storage[PROJECTS_KEY] = Stored(<<>>)

\* C8: every task that is not completed is in exactly one of the five
\* schedule-bucket views, the one of its schedule; no completed task is in a
\* bucket view; every task's schedule is one of the five buckets.
OneBucketPerTask ==
    \A t \in Range(tasks) :
        LET shownIn == {b \in Buckets :
                          t \in Range(filteredTasksOf(tasks, BucketView(b)))}
        IN  /\ t.schedule \in Buckets
            /\ t.status # "completed" => shownIn = {t.schedule}
            /\ t.status = "completed" => shownIn = {}

\* C8: the schedule of a task has just been cleared in its picker, the task
\* is in Anytime, and another task is completed
OneBucketPerTaskWitness ==
    /\ lastOp.op = "handleScheduleTask" /\ lastOp.arg = NullText
    /\ lastOp.task \in Ids(tasks)
    /\ TaskOf(tasks, lastOp.task).schedule = "anytime"
    /\ TaskOf(tasks, lastOp.task).status = "cancelled"
    /\ \E t \in Range(tasks) : t.status = "completed"

\* C9: the logbook lists exactly the completed tasks, each once, none older
\* (by completed_at, or updated_at when that is null) than the one after it;
\* a task just completed by its checkbox in a bucket view is no longer in
\* that view and is the first of the logbook.
LogbookNewestFirst ==
    /\ [](LET logbook == filteredTasksOf(tasks, LogbookView)
          IN  /\ Ids(logbook) = {t.id : t \in {u \in Range(tasks) : u.status = "completed"}}
              /\ Len(logbook) = Cardinality(Ids(logbook))
              /\ \A i \in 1..(Len(logbook) - 1) :
                    LogbookDate(logbook[i]) >= LogbookDate(logbook[i + 1]))
    /\ [][lastOp'.op = "handleToggleTask" /\ lastOp'.arg = "complete"
             /\ activeView.kind \in Buckets =>
              /\ lastOp'.task \in Ids(filteredTasks)
              /\ lastOp'.task \notin Ids(filteredTasksOf(tasks', activeView'))
              /\ Head(filteredTasksOf(tasks', LogbookView)).id = lastOp'.task]_vars

\* C9: task 3 has just been completed by its checkbox in Today while task 4
\* was completed before; the logbook lists task 3, then task 4
LogbookNewestFirstWitness ==
    /\ lastOp.op = "handleToggleTask" /\ lastOp.arg = "complete" /\ lastOp.task = 3
    /\ activeView = BucketView("today")
    /\ MapSeq(filteredTasksOf(tasks, LogbookView), LAMBDA t : t.id) = <<3, 4>>
    /\ filteredTasks = <<>>

\* C10 as stated: the view of every project P lists every task whose
\* project_id is P: a task that is not completed in exactly one group (the
\* group without heading or the group of one of P's headings), a completed
\* task in the completed section.
ProjectViewListsEveryTask ==
    \A p \in Ids(projects) :
        LET ts == filteredTasksOf(tasks, ProjectViewOf(p))
            hs == projectHeadingsOf(headings, p)
            groupsOf(t) ==
                (IF t.id \in Ids(tasksWithoutHeadingOf(ts)) THEN {NoId} ELSE {})
                    \cup {hs[i].id : i \in {j \in 1..Len(hs) :
                                              t.id \in Ids(tasksOfHeading(ts, hs[j]))}}
        IN  /\ Ids(ts) = {t.id : t \in {u \in Range(tasks) : u.project_id = p}}
            /\ \A t \in Range(ts) :
                  IF t.status = "completed"
                  THEN t.id \in Ids(completedTasksOf(ts)) /\ groupsOf(t) = {}
                  ELSE Cardinality(groupsOf(t)) = 1
                          /\ t.id \notin Ids(completedTasksOf(ts))

\* C11: creating a task with a title that is not blank in the view of bucket
\* B appends exactly one task, with schedule B, status active, no project, no
\* completed_at and position = the number of tasks before; in the logbook or
\* a project view its schedule is anytime.
NewTaskTakesViewSchedule ==
    [][lastOp'.op = "handleAddTask" =>
        LET new == tasks'[Len(tasks')]
        IN  /\ Len(tasks') = Len(tasks) + 1
            /\ SubSeq(tasks', 1, Len(tasks)) = tasks
            /\ new.id = lastOp'.task /\ new.id \notin Ids(tasks)
            /\ new.status = "active"
            /\ new.completed_at = NoTime
            /\ new.position = Len(tasks)
            /\ Trim(new.title) # ""
            /\ activeView.kind \in Buckets =>
                  new.schedule = activeView.kind /\ new.project_id = NoId
            /\ activeView.kind \notin Buckets => new.schedule = "anytime"
            /\ projects' = projects /\ headings' = headings /\ areas' = areas]_vars

\* C11: a task has just been created in This Week after the two tasks of
\* the start; it is the third task, at position 2, scheduled this_week
NewTaskTakesViewScheduleWitness ==
    /\ lastOp.op = "handleAddTask"
    /\ activeView = BucketView("this_week")
    /\ Len(tasks) = 3
    /\ tasks[3].schedule = "this_week" /\ tasks[3].position = 2
    /\ tasks[3].project_id = NoId /\ tasks[3].status = "active"

\* C13 as stated: a step that changes a field of a task sets that task's
\* updated_at to the time of the change.
UpdatedAtFollowsEveryChange ==
    [][\A i \in 1..Len(tasks) :
          \A j \in 1..Len(tasks') :
              (isLoaded /\ tasks'[j].id = tasks[i].id /\ tasks'[j] # tasks[i]) =>
                  /\ now' > now
                  /\ tasks'[j].updated_at = now']_vars

\* C14 as stated: no task, project or heading ever has a blank title or name.
NoBlankTitle ==
    /\ \A t \in Range(tasks) : Trim(t.title) # ""
    /\ \A p \in Range(projects) : Trim(p.name) # ""
    /\ \A h \in Range(headings) : Trim(h.name) # ""

\* C15: deleting the project of the active view sets the view to today,
\* deleting another project leaves the view as it is, and the active view
\* never names a project that is not in the projects collection.
ViewNeverOnDeletedProject ==
    /\ [](IsProjectViewOf(activeView) => activeView.pid \in Ids(projects))
    /\ [][lastOp'.op = "handleDeleteProject" =>
            activeView' = IF activeView = ProjectViewOf(lastOp'.project)
                          THEN BucketView("today") ELSE activeView]_vars

\* C15: the project of the active view has just been deleted from the
\* sidebar; the view is today and another project is left
ViewNeverOnDeletedProjectWitness ==
    /\ lastOp.op = "handleDeleteProject"
    /\ lastOp.arg = "viewed"
    /\ activeView = BucketView("today")
    /\ projects # <<>>

\* C16 as stated: releasing task T over a project or a schedule bucket by the
\* touch gesture leaves the tasks as the pointer drop of T on the same target
\* does: T in the project without heading, or T in the bucket, stamped now.
TouchDropMovesLikePointerDrop ==
    [][lastOp'.op = "handleTouchEnd" =>
        LET old == TaskOf(tasks, lastOp'.task)
        IN  tasks' = MapSeq(tasks, LAMBDA t :
                        IF t.id # lastOp'.task THEN t
                        ELSE IF lastOp'.project # NoId
                        THEN [old EXCEPT !.project_id = lastOp'.project,
                                         !.heading_id = NoId,
                                         !.updated_at = now + 1]
                        ELSE [old EXCEPT !.schedule = lastOp'.arg,
                                         !.updated_at = now + 1])]_vars

\* C12 as stated: in due_date mode, in every displayed group the tasks with
\* a deadline come before those without and are in strictly ascending order
\* of deadline.
DueDateStrictlyAscending ==
    (isProjectViewShown /\ sortBy = "due_date") =>
        \A g \in displayedGroups :
            \A i, j \in 1..Len(g) :
                i < j =>
                    /\ g[i].deadline = NullText => g[j].deadline = NullText
                    /\ (g[i].deadline # NullText /\ g[j].deadline # NullText) =>
                          getTime(g[i].deadline) < getTime(g[j].deadline)

\* C12: in due_date mode, in every displayed group of active tasks the tasks
\* with a deadline come before those without, the deadlines never descend,
\* and tasks with the same deadline (or with none) keep the order of the
\* collection.
DueDateAscending ==
    (isProjectViewShown /\ sortBy = "due_date") =>
        \A g \in displayedGroups :
            \A i, j \in 1..Len(g) :
                i < j =>
                    /\ g[i].deadline = NullText => g[j].deadline = NullText
                    /\ (g[i].deadline # NullText /\ g[j].deadline # NullText) =>
                          getTime(g[i].deadline) <= getTime(g[j].deadline)
                    /\ g[i].deadline = g[j].deadline =>
                          indexOf(MapSeq(tasks, LAMBDA t : t.id), g[i].id)
                              < indexOf(MapSeq(tasks, LAMBDA t : t.id), g[j].id)

\* C12: project 1 shown by due date: task 5 (due on the first date) is listed
\* before tasks 3 and 4 (both due on the second date, in collection order)
DueDateAscendingWitness ==
    /\ isProjectViewShown /\ sortBy = "due_date"
    /\ MapSeq(tasksWithoutHeading, LAMBDA t : t.id) = <<5, 3, 4>>
    /\ TaskOf(tasks, 3).deadline = Dates[2]
    /\ TaskOf(tasks, 4).deadline = Dates[2]
    /\ TaskOf(tasks, 5).deadline = Dates[1]

\* the sort mode a project shows when its view is opened from a list
modeOf(st, projectId) == savedSortOr(st, projectId, "manual")

\* C20 as stated: a step taken outside the view of project Q (a sort mode
\* selected in P, a switch to Q) never changes the mode kept for Q, and the
\* view of a project shows the mode kept for it.
SortModePerProject ==
    [][/\ \A q \in Ids(projects) :
            (isLoaded /\ q # currentProjectId) =>
                modeOf(sortStorage', q) = modeOf(sortStorage, q)
       /\ (isLoaded /\ IsProjectViewOf(activeView')) =>
            sortBy' = modeOf(sortStorage', activeView'.pid)]_vars

\* C17: each write is a step of its own that changes one slot and no other;
\* once the writes of a mutation are done every slot holds the collection in
\* memory, so the stored collections can disagree with each other only
\* between two writes.
OneSlotPerWrite ==
    /\ []((isLoaded /\ pending = <<>>) =>
            \A k \in Keys :
                storage[k] = Stored(CollectionText(k, tasks, projects, areas, headings)))
    /\ [][lastOp'.op = "setItem" =>
            \A k \in Keys :
                storage'[k] = IF k = lastOp'.arg
                              THEN Stored(CollectionText(k, tasks, projects, areas, headings))
                              ELSE storage[k]]_vars

\* C17: between two writes the stored tasks contain a task whose project_id
\* names a project that is not among the stored projects
OneSlotPerWriteWitness ==
    /\ isLoaded /\ pending # <<>>
    /\ \E t \in Range(storedTasks) :
          t.project_id # NoId /\ t.project_id \notin Ids(storedProjects)

\* the operations of the other instance
OtherOps == {"other:Startup", "other:handleDeleteTask", "other:handleToggleTask"}

\* C18: an instance reads storage only when it starts: a step of one
\* instance never changes the collections of the other; and a change
\* overwrites the whole stored collection with the writer's own, so after
\* both have written the tasks storage holds exactly the tasks of the
\* instance that wrote last.
LastWriterWins ==
    [][/\ lastOp'.op \in OtherOps =>
            /\ <<tasks', projects', areas', headings'>> = <<tasks, projects, areas, headings>>
            /\ storage'[TASKS_KEY] = Stored(MapSeq(other'.tasks, stringifyTask))
       /\ lastOp'.op \notin OtherOps => other' = other
       /\ lastOp'.op \in {"handleToggleTask", "handleDeleteTask", "Startup"} =>
            storage'[TASKS_KEY] = Stored(MapSeq(tasks', stringifyTask))]_vars

\* C18: both instances started from the saved session; this one deleted
\* task 3, then the other reopened task 4 and wrote last: storage holds the
\* other's tasks, task 3 is back in storage, and this instance still shows
\* task 4 as completed
LastWriterWinsWitness ==
    /\ isLoaded /\ other.isLoaded
    /\ lastOp = Op("other:handleToggleTask", 4, NoId, "reopen")
    /\ storage[TASKS_KEY] = Stored(MapSeq(other.tasks, stringifyTask))
    /\ 3 \notin Ids(tasks) /\ 3 \in Ids(other.tasks)
    /\ TaskOf(tasks, 4).status = "completed"
    /\ TaskOf(other.tasks, 4).status = "active"

\* C19 as stated: whenever the emoji picker of a row is open and the native
\* picker is unavailable or its request has failed, the catalog picker is
\* shown; an open picker always has the native picker (requested or on
\* screen) or the catalog.
CatalogWhenNativeFails ==
    picker.emojiPickerTaskId # NoId =>
        /\ (~isTauriEnvironment \/ picker.native = "failed") => picker.showCustomPicker
        /\ picker.showCustomPicker \/ picker.native \in {"requested", "shown"}

HeadingOfOwnProject ==
    \A t \in Range(tasks) :
        t.heading_id # NoId =>
            \E h \in Range(headings) :
                h.id = t.heading_id /\ h.project_id = t.project_id

\* a step that closes the add-task dialog or the task detail dialog without
\* calling a handler of Home: Cancel, the backdrop, Escape
abandons ==
    /\ lastOp'.op = "ui"
    /\ \/ isAddingTask /\ ~isAddingTask'
       \/ selectedTask # NoTask /\ selectedTask' = NoTask

\* C22 as stated: abandoning a dialog leaves the four collections and what
\* is stored as they were, and leaves nothing of the dialog's input behind
\* for a task created later: no heading is held once the dialog is closed.
AbandonCommitsNothing ==
    [][abandons =>
        /\ UNCHANGED <<tasks, projects, areas, headings, storage>>
        /\ addingTaskHeadingId' = NoId]_vars

\* the four collections in memory
collections == <<tasks, projects, areas, headings>>

\* C26: nothing is written while Home is not loaded, the load effect
\* included: it reads the four slots and leaves memory holding what they
\* held (or the seed); every write stores the collection in memory, under a
\* loaded Home; and no handler changes memory while writes are due.  So the
\* first write to each slot stores the loaded (or seeded) collection, never
\* the empty one Home is constructed with.
StartupNeverStoresEmpty ==
    [][/\ ~isLoaded =>
            /\ storage' = storage
            /\ isLoaded' =>
                  /\ tasks' = loaded(storage).tasks
                  /\ projects' = loaded(storage).projects
                  /\ areas' = loaded(storage).areas
                  /\ headings' = loaded(storage).headings
                  /\ Len(pending') >= Cardinality(Keys)
       /\ storage' # storage =>
            /\ isLoaded /\ pending # <<>> /\ collections' = collections
            /\ \A k \in Keys :
                  storage'[k] = IF k = Head(pending)
                                THEN Stored(CollectionText(k, tasks, projects, areas, headings))
                                ELSE storage[k]
       /\ (isLoaded /\ isLoaded' /\ collections' # collections) => pending = <<>>]_vars

\* C26: Home started on the saved session; the load effect has read it and
\* the first write is done: storage still holds that session's collections
StartupNeverStoresEmptyWitness ==
    /\ isLoaded /\ Len(pending) = 3
    /\ lastOp = Op("setItem", NoId, NoId, TASKS_KEY)
    /\ tasks = sessionTasks /\ tasks # <<>>
    /\ storage = sessionStorage

\* the ids of a sequence of records, in its order
idsInOrder(s) == [i \in 1..Len(s) |-> s[i].id]

\* C21: a reorder of the sidebar's projects leaves them listed in the order
\* the gesture gave (the dragged project one place up), numbered 0..n-1 in
\* that order and otherwise as they were; the collection holds the same
\* projects, each once, and a project outside the list keeps every field.
ReorderRenumbersSiblings ==
    [][lastOp'.op = "handleReorderProjects" =>
        LET before == standaloneProjects
            after == standaloneProjectsOf(projects')
            i == CHOOSE j \in 1..Len(before) : before[j].id = lastOp'.project
        IN  /\ idsInOrder(after) = idsInOrder(swapped(before, i - 1))
            /\ \A j \in 1..Len(after) : after[j].position = j - 1
            /\ \A j \in 1..Len(after) :
                  \E p \in Range(before) : after[j] = [p EXCEPT !.position = j - 1]
            /\ Len(projects') = Len(projects)
            /\ Ids(projects') = Ids(projects)
            /\ Cardinality(Ids(projects')) = Len(projects')
            /\ \A p \in Range(projects) :
                  p.id \notin Ids(before) => p \in Range(projects')
            /\ UNCHANGED <<tasks, areas, headings>>]_vars

\* C21: three projects, the completed project 2 not in the list; the new
\* project 6 was dragged above project 1
ReorderRenumbersSiblingsWitness ==
    /\ lastOp.op = "handleReorderProjects"
    /\ idsInOrder(standaloneProjects) = <<6, 1>>
    /\ idsInOrder(projects) = <<6, 1, 2>>
    /\ projects[3] = archiveProjects[2]

\* C23 as stated: the Escape key closes the topmost open overlay and leaves
\* every other open overlay open.
EscapeClosesTopmost ==
    [][lastOp'.op = "Escape" =>
        openOf(isAddingTask', selectedTask', isAddingProjectViaShortcut',
               showShortcutsHelp', showSearch')
            = openOverlays \ {topmost(openOverlays)}]_vars

\* C24 as stated: a highlight is taken off a task only by the timer of the
\* selection that set it or by Escape (a newer selection or a reload of
\* the page replaces it); a timer that runs while the timer of a newer
\* selection is still due leaves the highlight where it is.
HighlightOutlivesOlderTimers ==
    [][/\ (highlightedTaskId # NoId /\ highlightedTaskId' # highlightedTaskId) =>
            lastOp'.op \in {"setTimeout", "Escape", "handleSearchSelect", "Startup"}
       /\ (lastOp'.op = "setTimeout" /\ Len(timers) > 1) =>
            highlightedTaskId' = highlightedTaskId]_vars

\* C28 as stated: a search selection of task T opens the view of T's
\* project when T has one and else the view of T's bucket, and the tasks
\* Home hands to that view include T.
SearchSelectionIsListed ==
    [][lastOp'.op = "handleSearchSelect" =>
        LET T == TaskOf(tasks, lastOp'.task)
        IN  /\ activeView' = IF T.project_id # NoId THEN ProjectViewOf(T.project_id)
                             ELSE BucketView(T.schedule)
            /\ T.id \in Ids(filteredTasksOf(tasks', activeView'))]_vars

\* the place selectedIndex names is, or is not, one of the results
selectedIndexInRange(lowest) ==
    showSearch =>
        spotlight.selectedIndex \in lowest..Max(0, Len(flatResults) - 1)

\* Enter selects the result at selectedIndex, and only when there is one
EnterSelectsAtIndex ==
    [][(lastOp'.op = "handleSearchSelect" /\ lastOp'.arg = "Enter") =>
        /\ spotlight.selectedIndex \in 0..(Len(flatResults) - 1)
        /\ lastOp'.task = flatResults[spotlight.selectedIndex + 1].id]_vars

\* C30 as stated: selectedIndex is within 0 .. max(0, results - 1) whenever
\* the search is open, and Enter selects the result at selectedIndex only.
SelectedIndexWithinResults ==
    /\ []selectedIndexInRange(0)
    /\ EnterSelectsAtIndex

\* C30, amended: selectedIndex is within -1 .. max(0, results - 1), and is
\* -1 only while there is no result (ArrowDown pressed on an empty list);
\* Enter selects the result at selectedIndex, and only when there is one.
SelectedIndexWithinResultsOrNone ==
    /\ [](/\ selectedIndexInRange(-1)
          /\ (showSearch /\ spotlight.selectedIndex = -1) => flatResults = <<>>)
    /\ EnterSelectsAtIndex

\* C30: ArrowDown was pressed in the search with nothing typed: no result,
\* selectedIndex is -1
SelectedIndexWithinResultsOrNoneWitness ==
    /\ showSearch /\ spotlight = [query |-> "", selectedIndex |-> -1]
    /\ lastOp = Op("setSelectedIndex", NoId, NoId, "ArrowDown")

\* C27 as stated: with no finger on the list no task is being dragged and
\* no ghost element exists; and a drag starts only under a finger that has
\* stayed down since its touchstart.
NoDragWithoutTouch ==
    /\ [](touch.touches = {} => (touch.draggingTaskId = NoId /\ touch.ghosts = 0))
    /\ [][(lastOp'.op = "longPressTimer" /\ touch'.draggingTaskId # touch.draggingTaskId)
            => lastOp'.arg = "held"]_vars

====
